---- MODULE Spec2Model ----
(***************************************************************************)
(* State-machine model of the gitlab-client browser application:           *)
(*   - js/utils/store.js      the Cache Store over localStorage            *)
(*   - js/modules/auth.js     credential record, time-log modal, events    *)
(*   - js/modules/app.js      the View Controller (loadProjects,           *)
(*                            loadIssues, loadTimeLogs, changePeriod)      *)
(*   - js/utils/gitlab.js     the Remote API Client                        *)
(*                                                                         *)
(* JavaScript values are tagged records (field t), so that null, strings,  *)
(* arrays and objects can be compared with one another.  A string that     *)
(* holds JSON text is a sequence of tokens; JSON.stringify and JSON.parse  *)
(* convert between values and token sequences.                             *)
(***************************************************************************)
EXTENDS Integers, Sequences, FiniteSets, Bags, TLC

VARIABLES
    localStorage,     \* window.localStorage: key -> JSON text (token sequence)
    sessionStorage,   \* "selectedProject" of window.sessionStorage ("" when unset)
    authView,         \* which of #authForm / #dashboard is shown
    errorMessage,     \* text of #errorMessage ("" when hidden)
    currentPeriod,    \* app.js currentPeriod: the month shown in the track tab
    issuesPagination, \* app.js issuesPagination
    projectsView,     \* projects tab: status and rendered cards
    issuesView,       \* issues list: status
    timeLogsView,     \* track tab: status, rendered entries, calendar month
    modal,            \* #newLogModal and log-crud.js _currentTimelogId
    baseUrl,          \* gitlab.js: baseUrl of the default GitLabAPI instance
    calls,            \* suspended async functions, each waiting for a response
    serverLogs,       \* time entries held by the remote service
    nextId,           \* number of entries the remote service has created
    tz,               \* offset of local time from UTC, in hours
    today,            \* local calendar day of the session
    clicks,           \* number of user events the session still has
    last              \* what the last step did (operation, arguments, result)

vars == <<localStorage, sessionStorage, authView, errorMessage, currentPeriod,
          issuesPagination, projectsView, issuesView, timeLogsView, modal,
          baseUrl, calls, serverLogs, nextId, tz, today, clicks, last>>

-----------------------------------------------------------------------------
(* JavaScript values *)

JNull == [t |-> "null"]
JStr(toks) == [t |-> "string", s |-> toks]
JArr(items) == [t |-> "array", a |-> items]
JObj(r) == [t |-> "object", o |-> r]
\* the result of an expression that throws
Throw == [t |-> "throw"]

IsArray(v) == v.t = "array"

\* JavaScript truthiness of the values above: null is falsy, the empty string
\* is falsy, arrays (also empty ones) and objects are truthy
Truthy(v) ==
    CASE v.t = "null" -> FALSE
      [] v.t = "string" -> v.s # <<>>
      [] OTHER -> TRUE

\* a || b; an operand that throws makes the expression throw
Or(a, b) == IF a.t = "throw" THEN a ELSE IF Truthy(a) THEN a ELSE b

\* try { v } catch (e) { handler }
Catch(v, handler) == IF v.t = "throw" THEN handler ELSE v

-----------------------------------------------------------------------------
(* JSON text: a sequence of tokens *)

LB == [c |-> "["]
RB == [c |-> "]"]
NullTok == [c |-> "null"]
ObjTok(r) == [c |-> "obj", v |-> r]

JSONstringify(v) ==
    CASE v.t = "array" -> <<LB>> \o [i \in 1..Len(v.a) |-> ObjTok(v.a[i])] \o <<RB>>
      [] v.t = "object" -> <<ObjTok(v.o)>>
      [] OTHER -> <<NullTok>>

\* JSON.parse(x): x is null (coerced to the text "null") or a string
JSONparse(x) ==
    IF x.t = "null" THEN JNull
    ELSE LET toks == x.s
             n == Len(toks)
         IN CASE toks = <<NullTok>> -> JNull
              [] n = 1 /\ toks[1].c = "obj" -> JObj(toks[1].v)
              [] n >= 2 /\ toks[1] = LB /\ toks[n] = RB
                   /\ \A i \in 2..(n-1) : toks[i].c = "obj"
                   -> JArr([i \in 1..(n-2) |-> toks[i+1].v])
              [] OTHER -> Throw

-----------------------------------------------------------------------------
(* localStorage *)

getItem(ls, k) == IF k \in DOMAIN ls THEN JStr(ls[k]) ELSE JNull

setItem(ls, k, text) == [x \in (DOMAIN ls) \cup {k} |-> IF x = k THEN text ELSE ls[x]]

removeItem(ls, k) == [x \in (DOMAIN ls) \ {k} |-> ls[x]]

-----------------------------------------------------------------------------
(* js/utils/store.js *)

PREFIX == "appStore:"

keyFor(k) == PREFIX \o k

\* k.startsWith(p)
startsWith(k, p) == Len(k) >= Len(p) /\ SubSeq(k, 1, Len(p)) = p

safeParse(v) == Catch(JSONparse(v), JNull)

clearAll(ls) == [x \in {k \in DOMAIN ls : ~ startsWith(k, PREFIX)} |-> ls[x]]

storeProjects(ls, projects) ==
    setItem(ls, keyFor("projects"), JSONstringify(Or(projects, JArr(<<>>))))

getProjects(ls) == Catch(Or(safeParse(getItem(ls, keyFor("projects"))), JNull), JNull)

clearProjects(ls) == removeItem(ls, keyFor("projects"))

\* variant: one key for the issues of all projects
issuesKeyShared(projectFullPath) == keyFor("issues")

issuesKey(projectFullPath) == keyFor("issues:" \o projectFullPath)

storeIssues(ls, projectFullPath, issues) ==
    setItem(ls, issuesKey(projectFullPath), JSONstringify(Or(issues, JArr(<<>>))))

\* variant: JSON.parse without the try blocks and without `|| null`
getIssuesUncaught(ls, projectFullPath) ==
    JSONparse(getItem(ls, issuesKey(projectFullPath)))

getIssues(ls, projectFullPath) ==
    Catch(Or(safeParse(getItem(ls, issuesKey(projectFullPath))), JNull), JNull)

clearIssues(ls, projectFullPath) == removeItem(ls, issuesKey(projectFullPath))

timelogsKey(period) == keyFor("timelogs:" \o period)

\* variant: the new entries are appended to the stored ones
storeTimeLogsMerge(ls, period, timelogs) ==
    LET old == safeParse(getItem(ls, timelogsKey(period)))
        new == Or(timelogs, JArr(<<>>))
    IN setItem(ls, timelogsKey(period),
               JSONstringify(IF IsArray(old) THEN JArr(old.a \o new.a) ELSE new))

storeTimeLogs(ls, period, timelogs) ==
    setItem(ls, timelogsKey(period), JSONstringify(Or(timelogs, JArr(<<>>))))

getTimeLogs(ls, period) ==
    Catch(Or(safeParse(getItem(ls, timelogsKey(period))), JNull), JNull)

clearTimeLogs(ls, period) == removeItem(ls, timelogsKey(period))

-----------------------------------------------------------------------------
(* Calendar: days are numbered from 0 = 2024-01-01 (a Monday); an instant  *)
(* is a number of hours since 2024-01-01T00:00Z.  All dates of the model   *)
(* lie in 2024.                                                            *)

Digit(n) == SubSeq("0123456789", n + 1, n + 1)

\* String(n).padStart(2, "0")
Pad2(n) == IF n < 10 THEN "0" \o Digit(n) ELSE Digit(n \div 10) \o Digit(n % 10)

\* the number written by two digits
Num2(str) == CHOOSE n \in 0..99 : Pad2(n) = str

MonthDays(m) == IF m = 2 THEN 29 ELSE IF m \in {4, 6, 9, 11} THEN 30 ELSE 31

RECURSIVE FirstDay(_)
\* day number of the first day of month m of 2024
FirstDay(m) == IF m <= 1 THEN 0 ELSE FirstDay(m - 1) + MonthDays(m - 1)

MonthOfDay(d) == CHOOSE m \in 1..12 : FirstDay(m) <= d /\ d < FirstDay(m) + MonthDays(m)

\* local calendar day of an instant (Date#getDate and friends use local time)
LocalDay(inst, zone) == (inst + zone) \div 24

\* `${d.getFullYear()}-${pad(d.getMonth() + 1)}-${pad(d.getDate())}`
LocalDateString(inst, zone) ==
    LET d == LocalDay(inst, zone)
        m == MonthOfDay(d)
    IN "2024-" \o Pad2(m) \o "-" \o Pad2(d - FirstDay(m) + 1)

\* new Date("YYYY-MM-DD"): a date-only string is midnight UTC
DateFromString(str) == 24 * (FirstDay(Num2(SubSeq(str, 6, 7))) + Num2(SubSeq(str, 9, 10)) - 1)

\* `${d.getFullYear()}-${String(d.getMonth() + 1).padStart(2, "0")}`
PeriodKeyOfInstant(inst, zone) == "2024-" \o Pad2(MonthOfDay(LocalDay(inst, zone)))

\* new Date(y, m, 1): local midnight of the first day of month m
MonthStart(m, zone) == 24 * FirstDay(m) - zone

\* new Date(): the session runs at local noon of `today`
Now(day, zone) == 24 * day + 12 - zone

-----------------------------------------------------------------------------
(* js/modules/auth.js: the credential record *)

AUTH_STORAGE_KEY == "userAuth"

\* variant: the record is written and the Cache Store is left as it is
saveCredentialsKeep(ls, username, token, repository, timestamp) ==
    setItem(ls, AUTH_STORAGE_KEY,
            JSONstringify(JObj([username |-> username, token |-> token,
                                repository |-> repository, timestamp |-> timestamp])))

saveCredentials(ls, username, token, repository, timestamp) ==
    clearAll(setItem(ls, AUTH_STORAGE_KEY,
                     JSONstringify(JObj([username |-> username, token |-> token,
                                         repository |-> repository,
                                         timestamp |-> timestamp]))))

clearCredentials(ls) == removeItem(ls, AUTH_STORAGE_KEY)

\* the value of a property of a parsed credential record; "" stands for the
\* falsy results (undefined, null, the empty string)
AuthField(parsed, name) ==
    IF parsed.t = "object" /\ name \in DOMAIN parsed.o THEN parsed.o[name] ELSE ""

\* getStoredAuth(): the record, or null; destructuring a parsed null throws
\* like a parse failure does, and the catch block removes the key
getStoredAuth(ls) ==
    LET auth == getItem(ls, AUTH_STORAGE_KEY)
        parsed == JSONparse(auth)
    IN IF Truthy(auth) /\ parsed.t = "object"
          /\ AuthField(parsed, "username") # "" /\ AuthField(parsed, "token") # ""
       THEN JObj([username |-> parsed.o.username, token |-> parsed.o.token,
                  repository |-> AuthField(parsed, "repository")])
       ELSE JNull

\* localStorage after getStoredAuth()
getStoredAuthStorage(ls) ==
    LET auth == getItem(ls, AUTH_STORAGE_KEY)
    IN IF Truthy(auth) /\ JSONparse(auth).t \in {"throw", "null"}
       THEN removeItem(ls, AUTH_STORAGE_KEY)
       ELSE ls

-----------------------------------------------------------------------------
(* js/utils/gitlab.js: the Remote API Client, and the remote service *)

\* GitLabAPI.getToken(): "" stands for null / undefined
getToken(ls) ==
    LET auth == getItem(ls, AUTH_STORAGE_KEY)
    IN IF Truthy(auth) THEN AuthField(JSONparse(auth), "token") ELSE ""

\* defaultBase, computed once when the module is loaded: the repository of
\* the stored record, "" when there is none or the text does not parse
defaultBase(ls) ==
    LET auth == getItem(ls, AUTH_STORAGE_KEY)
    IN IF Truthy(auth) THEN AuthField(JSONparse(auth), "repository") ELSE ""

RECURSIVE NumStr(_)
\* `${n}` for an integer n >= 0
NumStr(n) == IF n < 10 THEN Digit(n) ELSE NumStr(n \div 10) \o Digit(n % 10)

\* parts.join(" ")
JoinSpace(parts) ==
    IF Len(parts) = 0 THEN ""
    ELSE IF Len(parts) = 1 THEN parts[1]
    ELSE parts[1] \o " " \o parts[2]

\* variant: the minutes are rounded to the nearest minute
formatDurationRound(seconds) ==
    IF seconds = 0 \/ seconds < 0 THEN "0m"
    ELSE LET hours == seconds \div 3600
             minutes == ((seconds % 3600) + 30) \div 60
             parts == (IF hours > 0 THEN <<NumStr(hours) \o "h">> ELSE <<>>)
                          \o (IF minutes > 0 THEN <<NumStr(minutes) \o "m">> ELSE <<>>)
         IN IF Len(parts) > 0 THEN JoinSpace(parts) ELSE "0m"

\* GitLabAPI.formatDuration(seconds), for an integer number of seconds
formatDuration(seconds) ==
    IF seconds = 0 \/ seconds < 0 THEN "0m"
    ELSE LET hours == seconds \div 3600
             minutes == (seconds % 3600) \div 60
             parts == (IF hours > 0 THEN <<NumStr(hours) \o "h">> ELSE <<>>)
                          \o (IF minutes > 0 THEN <<NumStr(minutes) \o "m">> ELSE <<>>)
         IN IF Len(parts) > 0 THEN JoinSpace(parts) ELSE "0m"

\* the message of the error that graphql and addSpentTime throw without a token
AuthMissing == "No authentication token found. Please login first."

\* how an operation of the client starts: it throws an error before any
\* request is made, or it sends its first request
Thrown(message) == [error |-> message, sent |-> FALSE]

RequestSent == [error |-> "", sent |-> TRUE]

\* GitLabAPI.graphql(query, variables) up to its fetch
graphql(ls) == IF getToken(ls) = "" THEN Thrown(AuthMissing) ELSE RequestSent

listProjects(ls) == graphql(ls)

getProject(ls) == graphql(ls)

listIssues(ls) == graphql(ls)

getIssue(ls) == graphql(ls)

\* variant: the request is sent with whatever getToken returns
addSpentTimeNoCheck(ls) == RequestSent

\* GitLabAPI.addSpentTime(...) up to its fetch: a REST request, with its own
\* check of the token
addSpentTime(ls) == IF getToken(ls) = "" THEN Thrown(AuthMissing) ELSE RequestSent

\* GitLabAPI.deleteTimeLog(timelogId) up to its fetch; 0 stands for a
\* missing id
deleteTimeLog(ls, timelogId) ==
    IF timelogId = 0 THEN Thrown("timelogId is required") ELSE graphql(ls)

getCurrentUser(ls) == graphql(ls)

\* GitLabAPI.getRecentTimeLogs(options) up to its first fetch: the current
\* user is looked up when options has no username ("")
getRecentTimeLogs(ls, username) ==
    IF username = "" THEN getCurrentUser(ls) ELSE graphql(ls)

Users == {"alice", "bob"}

TokenOf(u) == IF u = "alice" THEN "glpat-alice" ELSE "glpat-bob00"

\* the account a token authenticates; "" when the service rejects the token
UserOfToken(token) ==
    IF \E u \in Users : TokenOf(u) = token
    THEN CHOOSE u \in Users : TokenOf(u) = token
    ELSE ""

Project(id, path, member) == [id |-> id, fullPath |-> path, member |-> member]

\* the projects an account is a member of
ServerProjects(u) ==
    IF u = "alice"
    THEN <<Project("p1", "g/a", "alice"), Project("p2", "g/b", "alice")>>
    ELSE <<>>

ProjectPaths == {"g/a", "g/b"}

Issue(id, iid, path) == [id |-> id, iid |-> iid, project |-> path]

\* the pages of open issues of a project
ServerIssuePages(path) ==
    IF path = "g/a"
    THEN << <<Issue("i1", 1, "g/a")>>, <<Issue("i2", 2, "g/a")>> >>
    ELSE << <<Issue("i3", 1, "g/b")>> >>

\* a pagination cursor is opaque and names a position in one project's list
Cursor(path, k) == [p |-> path, k |-> k]
NoCursor == Cursor("", 0)

CanSee(u, path) == \E i \in 1..Len(ServerProjects(u)) : ServerProjects(u)[i].fullPath = path

TimeLog(id, spentAt, user, timeSpent, path) ==
    [id |-> id, spentAt |-> spentAt, user |-> user, timeSpent |-> timeSpent,
     project |-> path]

\* the entries the service holds when the session starts
InitialLogs ==
    { TimeLog(1, 24 * (FirstDay(2) + 9) + 10, "alice", 1800, "g/a"),
      TimeLog(2, 24 * (FirstDay(3) + 3) + 9, "alice", 3600, "g/a") }

RECURSIVE SortBySpentAtDesc(_)
\* enrichedTimelogs.sort((a, b) => new Date(b.spentAt) - new Date(a.spentAt)),
\* applied to the service's list, which is ordered by id
SortBySpentAtDesc(S) ==
    IF S = {} THEN <<>>
    ELSE LET top == CHOOSE e \in S : \A f \in S :
                       f.spentAt < e.spentAt \/ (f.spentAt = e.spentAt /\ f.id >= e.id)
         IN <<top>> \o SortBySpentAtDesc(S \ {top})

-----------------------------------------------------------------------------
(* js/utils/favorites.js *)

FAVORITES_KEY == "appFavorites"

NoFavorites == [projects |-> <<>>, issues |-> <<>>]

\* getFavorites(): a missing key, a parse failure and a parsed null all give
\* the empty sets
getFavorites(ls) ==
    LET stored == getItem(ls, FAVORITES_KEY)
        parsed == JSONparse(stored)
    IN IF Truthy(stored) /\ parsed.t = "object"
          /\ DOMAIN parsed.o = {"projects", "issues"}
       THEN parsed.o
       ELSE NoFavorites

getFavoriteProjects(ls) == getFavorites(ls).projects

getFavoriteIssues(ls) == getFavorites(ls).issues

includes(list, x) == \E i \in 1..Len(list) : list[i] = x

\* saveFavorites(favorites)
saveFavorites(ls, favorites) == setItem(ls, FAVORITES_KEY, JSONstringify(JObj(favorites)))

\* list.push(x) when x is not in the list, list.splice(index, 1) when it is
Toggled(list, x) ==
    LET other(y) == y # x
    IN IF includes(list, x) THEN SelectSeq(list, other) ELSE Append(list, x)

\* localStorage after toggleProjectFavorite(projectId)
toggleProjectFavorite(ls, projectId) ==
    saveFavorites(ls, [getFavorites(ls) EXCEPT !.projects = Toggled(@, projectId)])

\* localStorage after toggleIssueFavorite(issueId)
toggleIssueFavorite(ls, issueId) ==
    saveFavorites(ls, [getFavorites(ls) EXCEPT !.issues = Toggled(@, issueId)])

\* localStorage after clearAllFavorites()
clearAllFavorites(ls) == removeItem(ls, FAVORITES_KEY)

\* Array#sort(compare): the sort is stable; Before(a, b) is compare(a, b) < 0
StableSort(seq, Before(_, _)) ==
    LET n == Len(seq)
        rank(i) == Cardinality({j \in 1..n : \/ Before(seq[j], seq[i])
                                              \/ (~ Before(seq[i], seq[j]) /\ j < i)}) + 1
    IN [r \in 1..n |-> seq[CHOOSE i \in 1..n : rank(i) = r]]

\* variant: the items that are not favorites are left out
SortFavoritesOnly(nodes, favoriteIds) ==
    LET isFav(n) == includes(favoriteIds, n.id)
    IN SelectSeq(nodes, isFav)

\* nodes.sort((a, b) => ...) with the comparator that returns -1 when only a
\* is a favorite, 1 when only b is, and 0 otherwise
SortFavoritesFirst(nodes, favoriteIds) ==
    LET aFirst(a, b) == includes(favoriteIds, a.id) /\ ~ includes(favoriteIds, b.id)
    IN StableSort(nodes, aFirst)

-----------------------------------------------------------------------------
(* The program state as one record, so that the functions of the program   *)
(* can be composed the way the handlers call them.                         *)

MaxCalls == 3

S0 ==
    [ls |-> localStorage, selectedProject |-> sessionStorage, authView |-> authView,
     errorMessage |-> errorMessage, currentPeriod |-> currentPeriod,
     issuesPagination |-> issuesPagination, projectsView |-> projectsView,
     issuesView |-> issuesView, timeLogsView |-> timeLogsView, modal |-> modal,
     calls |-> calls]

\* the keys of the Cache Store that localStorage holds
CachedKeys(ls) == {k \in DOMAIN ls : startsWith(k, PREFIX)}

NoPrev == [op |-> "", key |-> "", coll |-> JNull, before |-> JNull]

\* what a step did: the operation, its arguments and what it returned (num:
\* a numeric argument; text: a returned string or the message of an error;
\* owner, user: the owner of the entry and the identity a lookup returned);
\* final: the function ran to its end; had: the keys of the Cache Store before
\* a login or logout step; before: what the matching get returned before the
\* step; prev: the step before it
Last(op) ==
    [op |-> op, path |-> "", period |-> "", force |-> FALSE, coll |-> JNull,
     ret |-> JNull, reqs |-> 0, ok |-> TRUE, final |-> TRUE, had |-> {},
     before |-> JNull, prev |-> NoPrev, num |-> 0, text |-> "",
     owner |-> "", user |-> ""]

Apply(st, lastRec) ==
    /\ BagCardinality(st.calls) <= MaxCalls
    /\ localStorage' = st.ls
    /\ sessionStorage' = st.selectedProject
    /\ authView' = st.authView
    /\ errorMessage' = st.errorMessage
    /\ currentPeriod' = st.currentPeriod
    /\ issuesPagination' = st.issuesPagination
    /\ projectsView' = st.projectsView
    /\ issuesView' = st.issuesView
    /\ timeLogsView' = st.timeLogsView
    /\ modal' = st.modal
    /\ baseUrl' = baseUrl
    /\ calls' = st.calls
    /\ last' = lastRec

\* a suspended async function: the function, the await it is suspended at,
\* its local variables, and the request it waits for (with the token the
\* request carries and the base URL it is sent to); once the service has
\* answered, the response
Call(fn, pc, token) ==
    [fn |-> fn, pc |-> pc, token |-> token, host |-> baseUrl, phase |-> "sent",
     ok |-> FALSE, nodes |-> <<>>, hasNextPage |-> FALSE, endCursor |-> NoCursor,
     user |-> "",
     force |-> FALSE, append |-> FALSE, path |-> "", periodKey |-> "",
     startDate |-> 0, endDate |-> 0, username |-> "", after |-> NoCursor,
     wide |-> FALSE, logId |-> 0, owner |-> "", date |-> "", reqs |-> 1]

AddCall(st, c) == [st EXCEPT !.calls = @ (+) SetToBag({c})]

-----------------------------------------------------------------------------
(* js/modules/app.js: projects *)

\* loadProjects after nodes are known: empty state, or sort and render
loadProjectsRender(st, nodes) ==
    IF Len(nodes) = 0
    THEN [st EXCEPT !.projectsView.status = "empty"]
    ELSE [st EXCEPT !.projectsView =
             [status |-> "list",
              nodes |-> SortFavoritesFirst(nodes, getFavoriteProjects(st.ls))]]

\* the catch block of loadProjects
loadProjectsCatch(st) == [st EXCEPT !.projectsView.status = "error"]

\* loadProjects(force) up to its first await
loadProjects(st, force) ==
    LET s1 == [st EXCEPT !.projectsView.status = "loading"]
        cached == IF force THEN JNull ELSE getProjects(s1.ls)
    IN IF IsArray(cached) /\ Len(cached.a) > 0
       THEN loadProjectsRender(s1, cached.a)
       ELSE IF getToken(s1.ls) = ""
            THEN loadProjectsCatch(s1)
            ELSE AddCall(s1, Call("loadProjects", "listProjects", getToken(s1.ls)))

\* variant: a failed fetch is cached as the empty list
loadProjectsResumeCacheEmpty(st, c) ==
    IF c.ok
    THEN loadProjectsRender([st EXCEPT !.ls = storeProjects(@, JArr(c.nodes))], c.nodes)
    ELSE loadProjectsCatch([st EXCEPT !.ls = storeProjects(@, JArr(<<>>))])

\* loadProjects from the response of listProjects on
loadProjectsResume(st, c) ==
    IF c.ok
    THEN loadProjectsRender([st EXCEPT !.ls = storeProjects(@, JArr(c.nodes))], c.nodes)
    ELSE loadProjectsCatch(st)

-----------------------------------------------------------------------------
(* js/modules/app.js: time logs *)

\* Date#toISOString().split("T")[0]: the UTC calendar date of an instant
ISODate(inst) ==
    LET d == inst \div 24
        m == MonthOfDay(d)
    IN IF d < 0 THEN "2023-12-" \o Pad2(32 + d)
       ELSE "2024-" \o Pad2(m) \o "-" \o Pad2(d - FirstDay(m) + 1)

\* Date#getDay() of a local day: 0 = Sunday; day 0 of the model is a Monday
getDay(d) == (d + 1) % 7

\* variant: the week starts on Sunday
MondayOfSundayStart(d) == d - getDay(d)

\* the local day of the Monday that starts the week of local day d
MondayOf(d) == d - (IF getDay(d) = 0 THEN 6 ELSE getDay(d) - 1)

\* variant: `day - 1` days are subtracted, on Sundays too
getWeekKeyDayMinusOne(inst, zone) ==
    ISODate(24 * (LocalDay(inst, zone) - (getDay(LocalDay(inst, zone)) - 1)) - zone)

\* getWeekKey(date): local midnight of the Monday of the week, printed in UTC
getWeekKey(inst, zone) == ISODate(24 * MondayOf(LocalDay(inst, zone)) - zone)

RECURSIVE SeedWeeks(_, _, _)
\* while (currentWeekStart <= lastDayOfMonth && currentWeekStart <= now):
\* the local days of the Mondays that get a bucket, in ascending order
SeedWeeks(w, lastDay, nowDay) ==
    IF w <= lastDay /\ w <= nowDay
    THEN <<w>> \o SeedWeeks(w + 7, lastDay, nowDay)
    ELSE <<>>

RECURSIVE SumTimeSpent(_)
\* totalSeconds += log.timeSpent, for each log in turn
SumTimeSpent(logs) ==
    IF logs = <<>> THEN 0 ELSE Head(logs).timeSpent + SumTimeSpent(Tail(logs))

\* the keys of an object in the order they were first assigned; keys is the
\* sequence of the keys of the assignments
InsertionOrder(keys) ==
    LET first(i) == \A j \in 1..(i - 1) : keys[j] # keys[i]
    IN SelectSeq([i \in 1..Len(keys) |-> i], first)

\* variant: the loop runs to the last day of the month, whatever the current
\* date is
SeededWeeksWholeMonth(m, nowDay, zone) ==
    LET lastDay == FirstDay(m) + MonthDays(m) - 1
        seeded == SeedWeeks(MondayOf(FirstDay(m)), lastDay, lastDay)
        keys == [i \in 1..Len(seeded) |-> ISODate(24 * seeded[i] - zone)]
        order == InsertionOrder(keys)
        lastOf(k) == CHOOSE i \in 1..Len(seeded) :
                         keys[i] = k /\ \A j \in (i + 1)..Len(seeded) : keys[j] # k
    IN [p \in 1..Len(order) |->
           [weekKey |-> keys[order[p]],
            weekStart |-> 24 * seeded[lastOf(keys[order[p]])] - zone]]

\* the weeks object of groupTimeLogsByWeek after the seeding loop, as the
\* sequence of its values: weeks[weekKey] = {weekStart, logs: [], totalSeconds: 0}
\* for each seeded Monday; a key that is assigned again keeps its place and
\* takes the new value
SeededWeeks(m, nowDay, zone) ==
    LET seeded == SeedWeeks(MondayOf(FirstDay(m)), FirstDay(m) + MonthDays(m) - 1, nowDay)
        keys == [i \in 1..Len(seeded) |-> ISODate(24 * seeded[i] - zone)]
        order == InsertionOrder(keys)
        lastOf(k) == CHOOSE i \in 1..Len(seeded) :
                         keys[i] = k /\ \A j \in (i + 1)..Len(seeded) : keys[j] # k
    IN [p \in 1..Len(order) |->
           [weekKey |-> keys[order[p]],
            weekStart |-> 24 * seeded[lastOf(keys[order[p]])] - zone]]

\* variant: every entry is counted, also the entries that are skipped
trackMonthEntriesAll(timeLogs, m, nowDay, zone) == Len(timeLogs)

\* the number shown in #trackMonthEntries: the entries that found a bucket
trackMonthEntries(timeLogs, m, nowDay, zone) ==
    LET weeks == SeededWeeks(m, nowDay, zone)
        found(l) == \E p \in 1..Len(weeks) : weeks[p].weekKey = getWeekKey(l.spentAt, zone)
    IN Len(SelectSeq(timeLogs, found))

\* groupTimeLogsByWeek(timeLogs, periodDate): the week buckets of month m,
\* most recent first; an entry whose week key has no bucket is skipped.
\* weekStart is the instant of the local midnight that starts the week.
groupTimeLogsByWeek(timeLogs, m, nowDay, zone) ==
    LET weeks == SeededWeeks(m, nowDay, zone)
        inWeek(k) == LET test(l) == getWeekKey(l.spentAt, zone) = k
                     IN SelectSeq(timeLogs, test)
        later(a, b) == b.weekStart - a.weekStart < 0
    IN StableSort([p \in 1..Len(weeks) |->
                      [weekStart |-> weeks[p].weekStart, weekKey |-> weeks[p].weekKey,
                       logs |-> inWeek(weeks[p].weekKey),
                       totalSeconds |-> SumTimeSpent(inWeek(weeks[p].weekKey))]],
                  later)

\* variant: the total of a day is kept in whole minutes
groupLogsByDayMinutes(logs) ==
    LET keys == [i \in 1..Len(logs) |-> ISODate(logs[i].spentAt)]
        order == InsertionOrder(keys)
        ofDay(k) == LET test(l) == ISODate(l.spentAt) = k IN SelectSeq(logs, test)
        earlier(a, b) == a.date - b.date < 0
    IN StableSort([p \in 1..Len(order) |->
                      [dayKey |-> keys[order[p]], date |-> logs[order[p]].spentAt,
                       logs |-> ofDay(keys[order[p]]),
                       totalSeconds |-> 60 * (SumTimeSpent(ofDay(keys[order[p]])) \div 60)]],
                  earlier)

\* the day grouping of loadTimeLogs: logsByDay, keyed by the UTC date of
\* spentAt, and sortedDays, ordered by the date of the first entry of each day
groupLogsByDay(logs) ==
    LET keys == [i \in 1..Len(logs) |-> ISODate(logs[i].spentAt)]
        order == InsertionOrder(keys)
        ofDay(k) == LET test(l) == ISODate(l.spentAt) = k IN SelectSeq(logs, test)
        earlier(a, b) == a.date - b.date < 0
    IN StableSort([p \in 1..Len(order) |->
                      [dayKey |-> keys[order[p]], date |-> logs[order[p]].spentAt,
                       logs |-> ofDay(keys[order[p]]),
                       totalSeconds |-> SumTimeSpent(ofDay(keys[order[p]]))]],
                  earlier)

\* groupedLogs.forEach(...): each week bucket with its sortedDays
weekContainers(groupedLogs) ==
    [i \in 1..Len(groupedLogs) |->
        [weekStart |-> groupedLogs[i].weekStart, weekKey |-> groupedLogs[i].weekKey,
         logs |-> groupedLogs[i].logs, totalSeconds |-> groupedLogs[i].totalSeconds,
         days |-> groupLogsByDay(groupedLogs[i].logs)]]

\* `${currentPeriod.getFullYear()}-${pad(currentPeriod.getMonth() + 1)}`
periodKeyOf(m) == "2024-" \o Pad2(m)

\* loadTimeLogs after nodes are known: search data, calendar, list
loadTimeLogsRender(st, nodes) ==
    LET s1 == [st EXCEPT !.timeLogsView.data = nodes,
                         !.timeLogsView.calendarMonth = st.currentPeriod]
    IN IF Len(nodes) = 0
       THEN [s1 EXCEPT !.timeLogsView.status = "empty"]
       ELSE [s1 EXCEPT !.timeLogsView.status = "list",
                       !.timeLogsView.entries =
                           trackMonthEntries(nodes, st.currentPeriod, today, tz),
                       !.timeLogsView.list =
                           weekContainers(
                               groupTimeLogsByWeek(nodes, st.currentPeriod, today, tz))]

\* the catch block of loadTimeLogs
loadTimeLogsCatch(st) == [st EXCEPT !.timeLogsView.status = "error"]

\* loadTimeLogs(periodDate, force) up to its first await; periodDate is a
\* month, 0 when the argument is left out
loadTimeLogs(st, periodDate, force) ==
    LET ref == IF periodDate # 0 THEN periodDate ELSE st.currentPeriod
        s1 == [st EXCEPT !.currentPeriod = ref, !.timeLogsView.status = "loading"]
        periodKey == periodKeyOf(ref)
        cached == IF force THEN JNull ELSE getTimeLogs(s1.ls, periodKey)
    IN IF IsArray(cached)
       THEN loadTimeLogsRender(s1, cached.a)
       ELSE IF getToken(s1.ls) = ""
            THEN loadTimeLogsCatch(s1)
            ELSE AddCall(s1, [Call("loadTimeLogs", "getCurrentUser", getToken(s1.ls))
                                 EXCEPT !.force = force, !.periodKey = periodKey,
                                        !.startDate = MonthStart(ref, tz),
                                        !.endDate = MonthStart(ref + 1, tz)])

\* variant: the period key is computed when the response arrives
loadTimeLogsResumeLate(st, c) ==
    IF ~ c.ok THEN loadTimeLogsCatch(st)
    ELSE IF c.pc = "getCurrentUser"
    THEN IF getToken(st.ls) = ""
         THEN loadTimeLogsCatch(st)
         ELSE AddCall(st, [c EXCEPT !.pc = "timelogs", !.token = getToken(st.ls),
                                    !.phase = "sent", !.ok = FALSE,
                                    !.username = c.user, !.reqs = c.reqs + 1])
    ELSE loadTimeLogsRender(
             [st EXCEPT !.ls = storeTimeLogs(@, periodKeyOf(st.currentPeriod), JArr(c.nodes))],
             c.nodes)

\* loadTimeLogs from a response on: getRecentTimeLogs first resolves the
\* current user, then queries the time logs of that user
loadTimeLogsResume(st, c) ==
    IF ~ c.ok THEN loadTimeLogsCatch(st)
    ELSE IF c.pc = "getCurrentUser"
    THEN IF getToken(st.ls) = ""
         THEN loadTimeLogsCatch(st)
         ELSE AddCall(st, [c EXCEPT !.pc = "timelogs", !.token = getToken(st.ls),
                                    !.phase = "sent", !.ok = FALSE,
                                    !.username = c.user, !.reqs = c.reqs + 1])
    ELSE loadTimeLogsRender(
             [st EXCEPT !.ls = storeTimeLogs(@, c.periodKey, JArr(c.nodes))], c.nodes)

\* changePeriod(offsetMonths)
changePeriod(st, offsetMonths) ==
    loadTimeLogs([st EXCEPT !.currentPeriod = @ + offsetMonths],
                 st.currentPeriod + offsetMonths, FALSE)

-----------------------------------------------------------------------------
(* js/modules/app.js: issues *)

NoPagination ==
    [endCursor |-> NoCursor, hasNextPage |-> FALSE, projectFullPath |-> "",
     allIssues |-> <<>>]

\* loadIssues after nodes and pageInfo are known: pagination state, sort, render
loadIssuesRender(st, path, append, nodes, hasNextPage, endCursor) ==
    LET all == IF append THEN st.issuesPagination.allIssues \o nodes ELSE nodes
        sorted == SortFavoritesFirst(all, getFavoriteIssues(st.ls))
    IN IF Len(all) = 0
       THEN [st EXCEPT !.issuesPagination.allIssues = all,
                       !.issuesPagination.endCursor = endCursor,
                       !.issuesPagination.hasNextPage = hasNextPage,
                       !.issuesView.status = "empty"]
       ELSE [st EXCEPT !.issuesPagination.allIssues = sorted,
                       !.issuesPagination.endCursor = endCursor,
                       !.issuesPagination.hasNextPage = hasNextPage,
                       !.issuesView = [status |-> "list", nodes |-> sorted,
                                       loadMore |-> IF hasNextPage THEN path ELSE ""]]

\* the catch block of loadIssues
loadIssuesCatch(st) == [st EXCEPT !.issuesView.status = "error"]

\* loadIssues(projectFullPath, force, append) up to its first await
loadIssues(st, projectFullPath, force, append) ==
    LET s1 == IF projectFullPath # st.issuesPagination.projectFullPath
              THEN [st EXCEPT !.issuesPagination =
                       [NoPagination EXCEPT !.projectFullPath = projectFullPath]]
              ELSE st
        s2 == [s1 EXCEPT !.issuesView.status = "loading"]
        cached == IF ~ append /\ ~ force THEN getIssues(s2.ls, projectFullPath) ELSE JNull
    IN IF IsArray(cached) /\ Len(cached.a) > 0
       THEN loadIssuesRender(s2, projectFullPath, append, cached.a, FALSE, NoCursor)
       ELSE IF getToken(s2.ls) = ""
            THEN loadIssuesCatch(s2)
            ELSE AddCall(s2, [Call("loadIssues", "listIssues", getToken(s2.ls))
                                 EXCEPT !.force = force, !.append = append,
                                        !.path = projectFullPath,
                                        !.after = IF append
                                                  THEN s2.issuesPagination.endCursor
                                                  ELSE NoCursor])

\* loadIssues from the response of listIssues on
loadIssuesResume(st, c) ==
    IF c.ok
    THEN loadIssuesRender(
             IF c.append THEN st
             ELSE [st EXCEPT !.ls = storeIssues(@, c.path, JArr(c.nodes))],
             c.path, c.append, c.nodes, c.hasNextPage, c.endCursor)
    ELSE loadIssuesCatch(st)

\* the project card's onclick, with showProjectIssues(projectFullPath, name)
showProjectIssues(st, projectFullPath) ==
    loadIssues([st EXCEPT !.selectedProject = projectFullPath], projectFullPath, FALSE, TRUE)

showProjectsList(st) == [st EXCEPT !.selectedProject = ""]

-----------------------------------------------------------------------------
(* js/modules/log-crud.js: the time-log modal *)

showErrorElement(st, message) == [st EXCEPT !.errorMessage = message]

\* _resetModalState(): the delete button's disabled flag is left as it is
ResetModalState(m) ==
    [m EXCEPT !.date = "", !.project = "", !.projectOptions = <<>>,
              !.issueOptions = <<>>, !.deleteShown = FALSE, !.id = 0]

hideNewLogModal(st) == [st EXCEPT !.modal = ResetModalState([@ EXCEPT !.hidden = TRUE])]

\* populateNewLogProjects after nodes are known
populateNewLogProjectsRender(st, nodes) ==
    IF Len(nodes) = 0
    THEN [st EXCEPT !.modal.project = "", !.modal.projectOptions = <<>>]
    ELSE LET sorted == SortFavoritesFirst(nodes, getFavoriteProjects(st.ls))
         IN [st EXCEPT !.modal.project = "",
                       !.modal.projectOptions = [i \in 1..Len(sorted) |-> sorted[i].fullPath],
                       !.modal.issueOptions = <<>>]

\* populateNewLogProjects() up to its first await
populateNewLogProjects(st) ==
    LET s1 == [st EXCEPT !.modal.project = "", !.modal.projectOptions = <<>>]
        nodes == getProjects(s1.ls)
    IN IF IsArray(nodes) /\ Len(nodes.a) > 0
       THEN populateNewLogProjectsRender(s1, nodes.a)
       ELSE IF getToken(s1.ls) = ""
            THEN showErrorElement(s1, "Failed to load projects")
            ELSE AddCall(s1, [Call("populateNewLogProjects", "listProjects", getToken(s1.ls))
                                 EXCEPT !.wide = TRUE])

populateNewLogProjectsResume(st, c) ==
    IF c.ok
    THEN populateNewLogProjectsRender(
             [st EXCEPT !.ls = storeProjects(@, JArr(c.nodes))], c.nodes)
    ELSE showErrorElement(st, "Failed to load projects")

\* populateNewLogIssues after nodes are known
populateNewLogIssuesRender(st, nodes) ==
    IF Len(nodes) = 0
    THEN [st EXCEPT !.modal.issueOptions = <<>>]
    ELSE LET sorted == SortFavoritesFirst(nodes, getFavoriteIssues(st.ls))
         IN [st EXCEPT !.modal.issueOptions = [i \in 1..Len(sorted) |-> sorted[i].iid]]

\* populateNewLogIssues(projectFullPath) up to its first await
populateNewLogIssues(st, projectFullPath) ==
    LET s1 == [st EXCEPT !.modal.issueOptions = <<>>]
        nodes == getIssues(s1.ls, projectFullPath)
    IN IF IsArray(nodes) /\ Len(nodes.a) > 0
       THEN populateNewLogIssuesRender(s1, nodes.a)
       ELSE IF getToken(s1.ls) = ""
            THEN showErrorElement(s1, "Failed to load issues")
            ELSE AddCall(s1, [Call("populateNewLogIssues", "listIssues", getToken(s1.ls))
                                 EXCEPT !.path = projectFullPath, !.wide = TRUE])

populateNewLogIssuesResume(st, c) ==
    IF c.ok
    THEN populateNewLogIssuesRender(
             [st EXCEPT !.ls = storeIssues(@, c.path, JArr(c.nodes))], c.nodes)
    ELSE showErrorElement(st, "Failed to load issues")

\* showNewLogModal(): today's date by default, then populate the projects
showNewLogModal(st) ==
    populateNewLogProjects(
        [st EXCEPT !.modal.hidden = FALSE,
                   !.modal.date = LocalDateString(Now(today, tz), tz)])

\* the last step of openDeleteTimelogModal: show the modal
openDeleteTimelogModalShow(st) == [st EXCEPT !.modal.hidden = FALSE]

\* openDeleteTimelogModal from the getProject step on: the project option is
\* the parsed path whether the lookup succeeds or fails; then the owner check
openDeleteTimelogModalOwner(st, c) ==
    LET s1 == [st EXCEPT !.modal.project = c.path, !.modal.projectOptions = <<c.path>>]
    IN IF getToken(s1.ls) = ""
       THEN openDeleteTimelogModalShow(s1)
       ELSE AddCall(s1, [c EXCEPT !.pc = "getCurrentUser", !.token = getToken(s1.ls),
                                  !.phase = "sent", !.ok = FALSE, !.reqs = c.reqs + 1])

\* openDeleteTimelogModal(log) up to its first await
openDeleteTimelogModal(st, log) ==
    LET s1 == [st EXCEPT !.modal.id = log.id,
                         !.modal.date = LocalDateString(log.spentAt, tz),
                         !.modal.deleteShown = TRUE]
        c == [Call("openDeleteTimelogModal", "getProject", getToken(s1.ls))
                 EXCEPT !.path = log.project, !.logId = log.id, !.owner = log.user]
    IN IF getToken(s1.ls) = ""
       THEN openDeleteTimelogModalOwner(s1, [c EXCEPT !.reqs = 0])
       ELSE AddCall(s1, c)

openDeleteTimelogModalResume(st, c) ==
    IF c.pc = "getProject"
    THEN openDeleteTimelogModalOwner(st, c)
    ELSE openDeleteTimelogModalShow(
             IF c.ok /\ c.user # c.owner
             THEN [st EXCEPT !.modal.deleteDisabled = TRUE]
             ELSE st)

\* document.dispatchEvent(new CustomEvent("timeLogAdded")): the listener of
\* events.js runs before dispatchEvent returns
dispatchTimeLogAdded(st) == loadTimeLogs(st, 0, TRUE)

\* variant: the listener reloads without the force flag
dispatchTimeLogDeletedCached(st) == loadTimeLogs(st, 0, FALSE)

\* document.dispatchEvent(new CustomEvent("timeLogDeleted"))
dispatchTimeLogDeleted(st) == loadTimeLogs(st, 0, TRUE)

\* the cache clearing of handleDeleteTimelog and handleNewLogSubmit: the
\* period key of new Date(value), skipped when the value is empty
clearPeriodOfDate(st, value) ==
    IF value # ""
    THEN [st EXCEPT !.ls = clearTimeLogs(@, PeriodKeyOfInstant(DateFromString(value), tz))]
    ELSE st

\* handleDeleteTimelog(e) up to its first await
handleDeleteTimelog(st) ==
    IF st.modal.id = 0
    THEN showErrorElement(st, "No timelog selected for deletion")
    ELSE IF getToken(st.ls) = ""
         THEN [showErrorElement(st, "No authentication token found. Please login first.")
                  EXCEPT !.modal.id = 0]
         ELSE AddCall(st, [Call("handleDeleteTimelog", "timelogDelete", getToken(st.ls))
                              EXCEPT !.logId = st.modal.id])

\* handleDeleteTimelog from the response of deleteTimeLog on: the modal is
\* closed first, and the date input is read after that
handleDeleteTimelogResume(st, c) ==
    IF c.ok
    THEN LET s1 == hideNewLogModal(st)
             s2 == clearPeriodOfDate(s1, s1.modal.date)
             s3 == dispatchTimeLogDeleted(s2)
         IN [s3 EXCEPT !.modal.id = 0]
    ELSE [showErrorElement(st, "Failed to delete time log") EXCEPT !.modal.id = 0]

\* handleNewLogSubmit(e) up to its first await; date and issueIid are the
\* values of the form fields (0: no issue selected)
handleNewLogSubmit(st, date, issueIid) ==
    LET project == st.modal.project
        todayStr == LocalDateString(Now(today, tz), tz)
        isToday == date = todayStr
    IN IF project = "" THEN showErrorElement(st, "Please select a project")
       ELSE IF issueIid = 0 THEN showErrorElement(st, "Please select an issue")
       ELSE IF ~ isToday /\ date # ""
       THEN \* GitLabAPI has no method addSpentTimeAtDate: the call throws
            showErrorElement(st, "gitlabAPI.addSpentTimeAtDate is not a function")
       ELSE IF getToken(st.ls) = ""
       THEN showErrorElement(st, "No authentication token found. Please login first.")
       ELSE AddCall(st, [Call("handleNewLogSubmit", "addSpentTime", getToken(st.ls))
                            EXCEPT !.path = project, !.date = date])

\* handleNewLogSubmit from the response of addSpentTime on
handleNewLogSubmitResume(st, c) ==
    IF c.ok
    THEN dispatchTimeLogAdded(clearPeriodOfDate(hideNewLogModal(st), c.date))
    ELSE showErrorElement(st, "Failed to add time log")

-----------------------------------------------------------------------------
(* The remote service *)

RECURSIVE Flatten(_)
Flatten(pages) == IF pages = <<>> THEN <<>> ELSE Head(pages) \o Flatten(Tail(pages))

\* whether the service accepts the request of call c, given the entries it holds
ServerAccepts(c, logs) ==
    LET u == UserOfToken(c.token)
    IN /\ u # ""
       /\ c.pc = "listIssues" =>
              CanSee(u, c.path) /\ (c.after = NoCursor \/ c.after.p = c.path)
       /\ c.pc = "timelogDelete" => \E e \in logs : e.id = c.logId /\ e.user = u
       /\ c.pc = "addSpentTime" => CanSee(u, c.path)

\* the call with the response of the service; fail: the transport, or the
\* service itself, fails the request
ServerAnswer(c, logs, fail) ==
    LET u == UserOfToken(c.token)
        pages == ServerIssuePages(c.path)
        k == c.after.k
        upto == IF c.wide THEN Len(pages) ELSE IF k + 1 <= Len(pages) THEN k + 1 ELSE k
        answered == [c EXCEPT !.phase = "answered", !.ok = TRUE]
    IN IF fail \/ ~ ServerAccepts(c, logs)
       THEN [c EXCEPT !.phase = "answered", !.ok = FALSE]
       ELSE CASE c.pc = "listProjects" -> [answered EXCEPT !.nodes = ServerProjects(u)]
              [] c.pc = "listIssues" ->
                    [answered EXCEPT !.nodes = Flatten(SubSeq(pages, k + 1, upto)),
                                     !.hasNextPage = upto < Len(pages),
                                     !.endCursor = IF upto > k THEN Cursor(c.path, upto)
                                                   ELSE NoCursor]
              [] c.pc = "getCurrentUser" -> [answered EXCEPT !.user = u]
              [] c.pc = "timelogs" ->
                    [answered EXCEPT !.nodes = SortBySpentAtDesc(
                        {e \in logs : /\ e.user = c.username /\ e.user = u
                                      /\ c.startDate <= e.spentAt
                                      /\ e.spentAt < c.endDate})]
              [] c.pc = "timelogDelete" ->
                    \* for the record: the local spent date of the deleted entry
                    [answered EXCEPT !.date = LocalDateString(
                        (CHOOSE e \in logs : e.id = c.logId).spentAt, tz)]
              [] OTHER -> answered

\* the entries the service holds after it has handled the request of call c
ServerEffect(c, logs, id) ==
    CASE c.pc = "timelogDelete" -> {e \in logs : e.id # c.logId}
      [] c.pc = "addSpentTime" ->
            logs \cup {TimeLog(id, Now(today, tz), UserOfToken(c.token), 3600, c.path)}
      [] OTHER -> logs

\* requests whose answer depends on the entries the service holds
Stateful(c) == c.pc \in {"timelogs", "timelogDelete", "addSpentTime"}

-----------------------------------------------------------------------------
(* Bounds and inputs of the model *)

\* months the user may move away from the month of today, back or forward
MaxAway == 1

\* user events (clicks, submits) in one session
MaxClicks == 5

TimeZones == {-1, 0, 1}

\* 2024-03-01 and 2024-03-05
Todays == {FirstDay(3), FirstDay(3) + 4}

\* what the user may type into the login form
LoginInputs ==
    { [username |-> "alice", token |-> TokenOf("alice"), repository |-> "https://gitlab.example"],
      [username |-> " alice ", token |-> TokenOf("alice"), repository |-> "https://gitlab.example"],
      [username |-> "   ", token |-> TokenOf("alice"), repository |-> "https://gitlab.example"],
      [username |-> "alice", token |-> "          ", repository |-> "https://gitlab.example"],
      [username |-> "bob", token |-> TokenOf("bob"), repository |-> "https://gitlab.example"],
      [username |-> "", token |-> TokenOf("alice"), repository |-> "https://gitlab.example"],
      [username |-> "alice", token |-> "glpat", repository |-> "https://gitlab.example"] }

-----------------------------------------------------------------------------
(* Initial state: a fresh browser profile, the login form is shown *)

EmptyStorage == [k \in {} |-> <<>>]

NoProjectsView == [status |-> "idle", nodes |-> <<>>]

NoIssuesView == [status |-> "idle", nodes |-> <<>>, loadMore |-> ""]

NoTimeLogsView ==
    [status |-> "idle", data |-> <<>>, calendarMonth |-> 0, list |-> <<>>, entries |-> 0]

ClosedModal ==
    [hidden |-> TRUE, date |-> "", project |-> "", projectOptions |-> <<>>,
     issueOptions |-> <<>>, deleteShown |-> FALSE, deleteDisabled |-> FALSE, id |-> 0]

\* what an earlier session of alice may have left in the Cache Store
SeededStorage ==
    storeTimeLogs(
        storeIssues(storeProjects(EmptyStorage, JArr(ServerProjects("alice"))),
                    "g/b", JArr(Flatten(ServerIssuePages("g/b")))),
        periodKeyOf(3), JArr(SortBySpentAtDesc({e \in InitialLogs : e.id = 2})))

InitWith(storages, zones, days, events, logs) ==
    /\ localStorage \in storages
    /\ sessionStorage = ""
    /\ authView = "login"
    /\ errorMessage = ""
    /\ tz \in zones
    /\ today \in days
    /\ currentPeriod = MonthOfDay(today)
    /\ issuesPagination = NoPagination
    /\ projectsView = NoProjectsView
    /\ issuesView = NoIssuesView
    /\ timeLogsView = NoTimeLogsView
    /\ modal = ClosedModal
    /\ baseUrl = defaultBase(localStorage)
    /\ calls = EmptyBag
    /\ serverLogs = logs
    /\ nextId = Cardinality(logs)
    /\ clicks = events
    /\ last = Last("init")

InitIn(storages, zones, days, events) ==
    InitWith(storages, zones, days, events, InitialLogs)

Init == InitIn({EmptyStorage, SeededStorage}, TimeZones, Todays, MaxClicks)

\* a user event: the remote service and the clock are left alone
Env == UNCHANGED <<serverLogs, nextId, tz, today>> /\ clicks > 0 /\ clicks' = clicks - 1

-----------------------------------------------------------------------------
(* js/modules/events.js: the handlers wired by initializeEventHandlers *)

RECURSIVE trimStart(_)
trimStart(str) ==
    IF Len(str) > 0 /\ SubSeq(str, 1, 1) = " "
    THEN trimStart(SubSeq(str, 2, Len(str)))
    ELSE str

RECURSIVE trimEnd(_)
trimEnd(str) ==
    IF Len(str) > 0 /\ SubSeq(str, Len(str), Len(str)) = " "
    THEN trimEnd(SubSeq(str, 1, Len(str) - 1))
    ELSE str

\* String#trim(), for strings whose white space is made of spaces
trim(str) == trimEnd(trimStart(str))

\* the values the submit handler reads from the fields of the form
FormValues(typed) ==
    [username |-> trim(typed.username), token |-> trim(typed.token),
     repository |-> trim(typed.repository)]

\* variant: the checks of the username are left out
LoginErrorNoUsername(in) ==
    IF in.token = "" \/ in.repository = ""
    THEN "Please fill in all fields"
    ELSE IF Len(in.token) < 8 THEN "Token must be at least 8 characters"
    ELSE IF Len(in.repository) < 5
            \/ ~ (startsWith(in.repository, "http://") \/ startsWith(in.repository, "https://"))
    THEN "Repository must be a valid URL (include https://)"
    ELSE ""

\* the login form's validation: the message shown, "" when the input is valid
LoginError(in) ==
    IF in.username = "" \/ in.token = "" \/ in.repository = ""
    THEN "Please fill in all fields"
    ELSE IF Len(in.username) < 3 THEN "Username must be at least 3 characters"
    ELSE IF Len(in.token) < 8 THEN "Token must be at least 8 characters"
    ELSE IF Len(in.repository) < 5
            \/ ~ (startsWith(in.repository, "http://") \/ startsWith(in.repository, "https://"))
    THEN "Repository must be a valid URL (include https://)"
    ELSE ""

\* the submit handler of #loginForm; typed: what the fields hold
loginSubmit(st, typed) ==
    LET s1 == [st EXCEPT !.errorMessage = ""]
        in == FormValues(typed)
    IN IF LoginError(in) # ""
       THEN [s1 EXCEPT !.errorMessage = LoginError(in)]
       ELSE LET s2 == [s1 EXCEPT !.ls = saveCredentials(@, in.username, in.token,
                                                        in.repository, Now(today, tz)),
                                 !.authView = "dashboard"]
            IN loadTimeLogs(loadProjects(s2, TRUE), 0, TRUE)

\* the click handler of #logoutBtn
logoutClick(st) ==
    [showProjectsList([st EXCEPT !.ls = clearCredentials(@)]) EXCEPT !.authView = "login"]

\* the click handler of the star of a project card
projectStarClick(st, projectId) ==
    loadProjects([st EXCEPT !.ls = toggleProjectFavorite(@, projectId)], FALSE)

\* the click handler of the star of an issue card
issueStarClick(st, issueId) ==
    LET s1 == [st EXCEPT !.ls = toggleIssueFavorite(@, issueId)]
    IN IF s1.selectedProject # ""
       THEN loadIssues(s1, s1.selectedProject, FALSE, FALSE)
       ELSE s1

\* the click handler of #refreshProjects
refreshProjectsClick(st) ==
    IF st.selectedProject # ""
    THEN loadIssues(st, st.selectedProject, TRUE, FALSE)
    ELSE loadProjects(st, TRUE)

DashboardShown == authView = "dashboard" /\ modal.hidden

LoginSubmitFrom(inputs) ==
    /\ authView = "login"
    /\ \E in \in inputs :
          Apply(loginSubmit(S0, in),
                [Last("loginSubmit") EXCEPT !.ok = LoginError(FormValues(in)) = "",
                                            !.had = CachedKeys(localStorage)])
    /\ Env

LoginSubmit == LoginSubmitFrom(LoginInputs)

Logout ==
    /\ DashboardShown
    /\ Apply(logoutClick(S0), [Last("logout") EXCEPT !.had = CachedKeys(localStorage)])
    /\ Env

TabProjects ==
    /\ DashboardShown
    /\ Apply(loadProjects(S0, FALSE), Last("loadProjects"))
    /\ Env

TabTrack ==
    /\ DashboardShown
    /\ Apply(loadTimeLogs(S0, 0, FALSE),
             [Last("loadTimeLogs") EXCEPT !.period = periodKeyOf(currentPeriod)])
    /\ Env

RefreshProjects ==
    /\ DashboardShown
    /\ Apply(refreshProjectsClick(S0),
             [Last("refreshProjects") EXCEPT !.force = TRUE, !.path = sessionStorage])
    /\ Env

RefreshTimeLogs ==
    /\ DashboardShown
    /\ Apply(loadTimeLogs(S0, 0, TRUE),
             [Last("loadTimeLogs") EXCEPT !.force = TRUE,
                                          !.period = periodKeyOf(currentPeriod)])
    /\ Env

\* the click handlers of #loadPrevMonth and #loadNextMonth
ChangePeriod ==
    /\ DashboardShown
    /\ \E off \in {-1, 1} :
          /\ currentPeriod + off <= MonthOfDay(today) + MaxAway
          /\ currentPeriod + off >= MonthOfDay(today) - MaxAway
          /\ Apply(changePeriod(S0, off),
                   [Last("loadTimeLogs") EXCEPT !.period = periodKeyOf(currentPeriod + off)])
    /\ Env

ProjectStarClick ==
    /\ DashboardShown
    /\ projectsView.status = "list"
    /\ sessionStorage = ""
    /\ \E i \in 1..Len(projectsView.nodes) :
          Apply(projectStarClick(S0, projectsView.nodes[i].id), Last("projectStarClick"))
    /\ Env

IssueStarClick ==
    /\ DashboardShown
    /\ issuesView.status = "list"
    /\ sessionStorage # ""
    /\ \E i \in 1..Len(issuesView.nodes) :
          Apply(issueStarClick(S0, issuesView.nodes[i].id),
                [Last("issueStarClick") EXCEPT !.path = sessionStorage])
    /\ Env

ProjectCardClick ==
    /\ DashboardShown
    /\ projectsView.status = "list"
    /\ sessionStorage = ""
    /\ \E i \in 1..Len(projectsView.nodes) :
          Apply(showProjectIssues(S0, projectsView.nodes[i].fullPath),
                [Last("showProjectIssues") EXCEPT !.path = projectsView.nodes[i].fullPath])
    /\ Env

BackToProjectsList ==
    /\ DashboardShown
    /\ sessionStorage # ""
    /\ Apply(showProjectsList(S0), Last("showProjectsList"))
    /\ Env

LoadMoreClick ==
    /\ DashboardShown
    /\ sessionStorage # ""
    /\ issuesView.status = "list"
    /\ issuesView.loadMore # ""
    /\ Apply(loadIssues(S0, issuesView.loadMore, FALSE, TRUE),
             [Last("loadMore") EXCEPT !.path = issuesView.loadMore])
    /\ Env

\* the entries whose cards are shown in the time-log list
ShownLogs == UNION {{w.logs[i] : i \in 1..Len(w.logs)} :
                       w \in {timeLogsView.list[j] : j \in 1..Len(timeLogsView.list)}}

NewLogClick ==
    /\ DashboardShown
    /\ Apply(showNewLogModal(S0), Last("showNewLogModal"))
    /\ Env

\* the change handler of #newLogProject
SelectProject ==
    /\ ~ modal.hidden
    /\ ~ modal.deleteShown
    /\ \E i \in 1..Len(modal.projectOptions) :
          LET path == modal.projectOptions[i]
          IN Apply(populateNewLogIssues([S0 EXCEPT !.modal.project = path], path),
                   [Last("populateNewLogIssues") EXCEPT !.path = path])
    /\ Env

\* the dates the user may type into #newLogDate: none, today, the day before
TypedDates ==
    {"", LocalDateString(Now(today, tz), tz), LocalDateString(Now(today - 1, tz), tz)}

\* the user sets the date and the issue of the form and submits it
SubmitNewLog ==
    /\ ~ modal.hidden
    /\ ~ modal.deleteShown
    /\ \E date \in TypedDates :
       \E iid \in {0} \cup {modal.issueOptions[i] : i \in 1..Len(modal.issueOptions)} :
          Apply(handleNewLogSubmit([S0 EXCEPT !.modal.date = date], date, iid),
                [Last("handleNewLogSubmit") EXCEPT !.period = date, !.num = iid])
    /\ Env

\* a click on the card of an entry of the time-log list
TimeLogCardClick ==
    /\ DashboardShown
    /\ timeLogsView.status = "list"
    /\ \E log \in ShownLogs :
          Apply(openDeleteTimelogModal(S0, log), Last("openDeleteTimelogModal"))
    /\ Env

DeleteClick ==
    /\ ~ modal.hidden
    /\ modal.deleteShown
    /\ ~ modal.deleteDisabled
    /\ Apply(handleDeleteTimelog(S0), Last("handleDeleteTimelog"))
    /\ Env

\* the cancel button, the overlay and the Escape key
CancelModal ==
    /\ ~ modal.hidden
    /\ Apply(hideNewLogModal(S0), Last("hideNewLogModal"))
    /\ Env

-----------------------------------------------------------------------------
(* Requests in flight *)

ReplaceCall(bag, c, d) == (bag (-) SetToBag({c})) (+) SetToBag({d})

\* the requests of the Remote API Client, by the await they are sent at
Requests ==
    {"listProjects", "listIssues", "getProject", "getCurrentUser", "timelogs",
     "timelogDelete", "addSpentTime"}

\* the requests that change the entries of the remote service
Mutations == {"timelogDelete", "addSpentTime"}

\* whether the request of call c fails: only requests in `failing` may
Outcomes(c, failing) == IF c.pc \in failing THEN BOOLEAN ELSE {FALSE}

\* the remote service handles a request that reads or changes its entries
RespondIn(failing) ==
    \E c \in BagToSet(calls) : \E fail \in Outcomes(c, failing) :
        /\ Stateful(c)
        /\ c.phase = "sent"
        /\ calls' = ReplaceCall(calls, c, ServerAnswer(c, serverLogs, fail))
        /\ serverLogs' = IF ServerAnswer(c, serverLogs, fail).ok
                          THEN ServerEffect(c, serverLogs, nextId + 1)
                          ELSE serverLogs
        /\ nextId' = IF ServerAnswer(c, serverLogs, fail).ok /\ c.pc = "addSpentTime"
                      THEN nextId + 1 ELSE nextId
        /\ last' = Last("respond")
        /\ UNCHANGED <<localStorage, sessionStorage, authView, errorMessage,
                       currentPeriod, issuesPagination, projectsView, issuesView,
                       timeLogsView, modal, baseUrl, tz, today, clicks>>

Respond == RespondIn(Requests)

\* the suspended function of call c runs on with the response r
Resume(st, r) ==
    CASE r.fn = "loadProjects" -> loadProjectsResume(st, r)
      [] r.fn = "loadIssues" -> loadIssuesResume(st, r)
      [] r.fn = "loadTimeLogs" -> loadTimeLogsResume(st, r)
      [] r.fn = "populateNewLogProjects" -> populateNewLogProjectsResume(st, r)
      [] r.fn = "populateNewLogIssues" -> populateNewLogIssuesResume(st, r)
      [] r.fn = "openDeleteTimelogModal" -> openDeleteTimelogModalResume(st, r)
      [] r.fn = "handleDeleteTimelog" -> handleDeleteTimelogResume(st, r)
      [] r.fn = "handleNewLogSubmit" -> handleNewLogSubmitResume(st, r)

\* what a resumed call reports when it has run on
Done(r) ==
    [Last(r.fn \o ".resume") EXCEPT !.ok = r.ok, !.path = r.path, !.force = r.force,
                                     !.reqs = r.reqs, !.owner = r.owner, !.user = r.user,
                                     !.final =
                                         ~ \/ r.fn = "loadTimeLogs" /\ r.pc = "getCurrentUser" /\ r.ok
                                           \/ r.fn = "openDeleteTimelogModal" /\ r.pc = "getProject",
                                     !.period = IF r.fn = "loadTimeLogs" THEN r.periodKey
                                                ELSE r.date]

\* a response arrives and the function that awaits it runs to its next await
\* or to its end
DeliverIn(failing) ==
    \E c \in BagToSet(calls) : \E fail \in Outcomes(c, failing) :
        /\ IF Stateful(c) THEN c.phase = "answered" /\ ~ fail ELSE TRUE
        /\ LET r == IF Stateful(c) THEN c ELSE ServerAnswer(c, serverLogs, fail)
           IN Apply(Resume([S0 EXCEPT !.calls = @ (-) SetToBag({c})], r), Done(r))
        /\ UNCHANGED <<serverLogs, nextId, tz, today, clicks>>

Deliver == DeliverIn(Requests)

Next ==
    \/ LoginSubmit
    \/ Logout
    \/ TabProjects
    \/ TabTrack
    \/ RefreshProjects
    \/ RefreshTimeLogs
    \/ ChangePeriod
    \/ ProjectStarClick
    \/ IssueStarClick
    \/ ProjectCardClick
    \/ BackToProjectsList
    \/ LoadMoreClick
    \/ NewLogClick
    \/ SelectProject
    \/ SubmitNewLog
    \/ TimeLogCardClick
    \/ DeleteClick
    \/ CancelModal
    \/ Respond
    \/ Deliver

Spec == Init /\ [][Next]_vars

-----------------------------------------------------------------------------
(* Sessions that exercise one part of the program each *)

\* user events of a session of logins and logouts
MaxCredClicks == 3

\* user events of a session of adding and deleting time entries
MaxLogClicks == 4

\* user events of a session of browsing
MaxNavClicks == 3

\* the session runs on 2024-03-05, in the time zone of UTC
InitCred == InitIn({EmptyStorage, SeededStorage}, {0}, {FirstDay(3) + 4}, MaxCredClicks)

\* logins, logouts and forced loads
NextCred ==
    \/ LoginSubmit
    \/ Logout
    \/ ProjectCardClick
    \/ RefreshProjects
    \/ RefreshTimeLogs
    \/ Respond
    \/ Deliver

SpecCred == InitCred /\ [][NextCred]_vars

LoginAlice ==
    LoginSubmitFrom({in \in LoginInputs : in.username = "alice" /\ LoginError(in) = ""})

\* only the requests that add or delete an entry may fail
RespondMutation == RespondIn(Mutations)

\* a response arrives that is not a failure of the transport
DeliverRead == DeliverIn({})

InitLog == InitIn({EmptyStorage}, {0}, {FirstDay(3) + 4}, MaxLogClicks)

\* alice adds and deletes time entries and changes the month shown
NextLog ==
    \/ LoginAlice
    \/ ChangePeriod
    \/ NewLogClick
    \/ SelectProject
    \/ SubmitNewLog
    \/ TimeLogCardClick
    \/ DeleteClick
    \/ RespondMutation
    \/ DeliverRead

SpecLog == InitLog /\ [][NextLog]_vars

InitNav == InitIn({EmptyStorage}, {0}, {FirstDay(3) + 4}, MaxNavClicks)

\* alice or bob browses projects, issues and months; the requests for
\* projects and issues succeed
NextNav ==
    \/ LoginSubmit
    \/ TabProjects
    \/ TabTrack
    \/ RefreshProjects
    \/ ChangePeriod
    \/ ProjectCardClick
    \/ BackToProjectsList
    \/ LoadMoreClick
    \/ Respond
    \/ DeliverRead

SpecNav == InitNav /\ [][NextNav]_vars

\* user events of a session of changing the month shown
MaxPeriodClicks == 3

\* entries of alice at the first and the last hours of months, in UTC:
\* 2024-02-29T23:00Z, 2024-03-01T00:00Z, 2024-03-31T23:00Z, 2024-04-01T00:00Z
BoundaryLogs ==
    { TimeLog(1, 24 * FirstDay(3) - 1, "alice", 1800, "g/a"),
      TimeLog(2, 24 * FirstDay(3), "alice", 3600, "g/a"),
      TimeLog(3, 24 * FirstDay(4) - 1, "alice", 900, "g/b"),
      TimeLog(4, 24 * FirstDay(4), "alice", 60, "g/b") }

InitPeriod ==
    InitWith({EmptyStorage}, TimeZones, {FirstDay(3) + 4}, MaxPeriodClicks, BoundaryLogs)

\* the remote service answers a query for time entries
RespondRead == RespondIn({})

\* alice moves between months while the responses of earlier months are
\* still on their way, in any time zone
NextPeriod ==
    \/ LoginAlice
    \/ ChangePeriod
    \/ RefreshTimeLogs
    \/ RespondRead
    \/ DeliverRead

SpecPeriod == InitPeriod /\ [][NextPeriod]_vars

\* user events of a session of marking favorites
MaxFavClicks == 4

InitFav == InitIn({EmptyStorage}, {0}, {FirstDay(3) + 4}, MaxFavClicks)

\* alice marks projects and issues as favorites and logs out
NextFav ==
    \/ LoginAlice
    \/ Logout
    \/ ProjectStarClick
    \/ IssueStarClick
    \/ ProjectCardClick
    \/ RespondRead
    \/ DeliverRead

SpecFav == InitFav /\ [][NextFav]_vars

\* user events of a session of opening the entries of two accounts
MaxOwnerClicks == 6

\* an entry of alice and an entry of bob, both of March 2024
OwnerLogs ==
    { TimeLog(1, 24 * (FirstDay(3) + 3) + 9, "alice", 3600, "g/a"),
      TimeLog(2, 24 * (FirstDay(3) + 1) + 9, "bob", 1800, "g/a") }

InitOwner == InitWith({EmptyStorage}, {0}, {FirstDay(3) + 4}, MaxOwnerClicks, OwnerLogs)

\* alice or bob logs in with a valid credential
LoginUser == LoginSubmitFrom({in \in LoginInputs : LoginError(in) = "" /\ UserOfToken(in.token) # ""})

\* alice and bob use the page one after the other and open the entries shown;
\* no request fails in transport
NextOwner ==
    \/ LoginUser
    \/ Logout
    \/ NewLogClick
    \/ TimeLogCardClick
    \/ DeleteClick
    \/ CancelModal
    \/ RespondRead
    \/ DeliverRead

SpecOwner == InitOwner /\ [][NextOwner]_vars

\* user events of a session of opening projects
MaxIssueClicks == 6

InitIssues == InitIn({EmptyStorage}, {0}, {FirstDay(3) + 4}, MaxIssueClicks)

\* alice opens projects from their cards, goes back and loads more issues
\* while the responses of earlier requests are still on their way
NextIssues ==
    \/ LoginAlice
    \/ ProjectCardClick
    \/ BackToProjectsList
    \/ LoadMoreClick
    \/ RespondRead
    \/ DeliverRead

SpecIssues == InitIssues /\ [][NextIssues]_vars

-----------------------------------------------------------------------------
(* The favorites-first ordering on its own: loadProjects and loadIssues     *)
(* render a loaded collection, which is any list, under any favorite sets. *)

\* items in one loaded collection
MaxNodes == 3

\* renderings in one session
MaxSortCalls == 1

SortProjects ==
    {Project("p1", "g/a", "alice"), Project("p2", "g/b", "alice"),
     Project("p3", "g/c", "alice")}

SortIssues == {Issue("i1", 1, "g/a"), Issue("i2", 2, "g/a"), Issue("i3", 3, "g/a")}

\* the loaded collections: lists of projects and lists of issues, an item may
\* occur more than once
LoadedCollections ==
    UNION {[1..n -> SortProjects] \cup [1..n -> SortIssues] : n \in 0..MaxNodes}

\* the stored favorite sets; "p9" and "i9" are in no collection
FavoriteSets ==
    {[projects |-> ps, issues |-> is] :
        ps \in {<<>>, <<"p1">>, <<"p2">>, <<"p3", "p1">>, <<"p9">>},
        is \in {<<>>, <<"i2">>, <<"i3", "i2">>, <<"i1", "i9">>}}

IsProjects(nodes) == \A i \in 1..Len(nodes) : nodes[i] \in SortProjects

IsIssues(nodes) == \A i \in 1..Len(nodes) : nodes[i] \in SortIssues

InitSort ==
    /\ \E favs \in FavoriteSets : localStorage = saveFavorites(EmptyStorage, favs)
    /\ sessionStorage = ""
    /\ authView = "dashboard"
    /\ errorMessage = ""
    /\ tz = 0
    /\ today = FirstDay(3) + 4
    /\ currentPeriod = 3
    /\ issuesPagination = NoPagination
    /\ projectsView = NoProjectsView
    /\ issuesView = NoIssuesView
    /\ timeLogsView = NoTimeLogsView
    /\ modal = ClosedModal
    /\ baseUrl = defaultBase(localStorage)
    /\ calls = EmptyBag
    /\ serverLogs = {}
    /\ nextId = 0
    /\ clicks = MaxSortCalls
    /\ \E nodes \in LoadedCollections : last = [Last("init") EXCEPT !.coll = JArr(nodes)]

\* loadProjects from `nodes` on, for the loaded collection
RenderProjects ==
    /\ IsProjects(last.coll.a)
    /\ Apply(loadProjectsRender(S0, last.coll.a),
             [Last("loadProjectsRender") EXCEPT !.coll = last.coll])
    /\ Env

\* loadIssues from `nodes` on, for the loaded collection as the first page
RenderIssues ==
    /\ IsIssues(last.coll.a)
    /\ Apply(loadIssuesRender(S0, "g/a", FALSE, last.coll.a, FALSE, NoCursor),
             [Last("loadIssuesRender") EXCEPT !.coll = last.coll, !.path = "g/a"])
    /\ Env

NextSort == RenderProjects \/ RenderIssues

SpecSort == InitSort /\ [][NextSort]_vars

-----------------------------------------------------------------------------
(* The Cache Store on its own: its callers may call any function of        *)
(* store.js with any argument, and other scripts of the page (or the user, *)
(* through the browser's tools) may write any text under its keys.         *)

\* operations on the store in one session
MaxOps == 2

\* collections a caller may store: none, one and two items, in both orders
StoreCollections ==
    LET p == Project("p1", "g/a", "alice")
        i == Issue("i1", 1, "g/a")
    IN {JArr(<<>>), JArr(<<p>>), JArr(<<p, i>>), JArr(<<i, p>>)}

\* what a caller may pass as the collection: an array, or null
StoreArgs == StoreCollections \cup {JNull}

StorePeriods == {periodKeyOf(2), periodKeyOf(3)}

StoreKeys ==
    {keyFor("projects")} \cup {issuesKey(p) : p \in ProjectPaths}
        \cup {timelogsKey(k) : k \in StorePeriods}

\* texts that are not what the store writes: the empty string, a truncated
\* array, the text "null"
RawTexts == {<<>>, <<LB, ObjTok(Project("p1", "g/a", "alice"))>>, <<NullTok>>}

InitStore == InitIn({EmptyStorage, SeededStorage}, {0}, {FirstDay(3) + 4}, MaxOps)

\* one call of a function of the store: localStorage after it, and the report
StoreStep(ls, report) ==
    /\ clicks > 0
    /\ clicks' = clicks - 1
    /\ localStorage' = ls
    /\ last' = [report EXCEPT !.prev = [op |-> last.op, key |-> last.path \o last.period,
                                        coll |-> last.coll, before |-> last.before]]
    /\ UNCHANGED <<sessionStorage, authView, errorMessage, currentPeriod,
                   issuesPagination, projectsView, issuesView, timeLogsView, modal, baseUrl,
                   calls, serverLogs, nextId, tz, today>>

StoreProjects ==
    \E c \in StoreArgs :
        StoreStep(storeProjects(localStorage, c),
                  [Last("storeProjects") EXCEPT !.coll = c,
                                                !.before = getProjects(localStorage)])

GetProjects ==
    StoreStep(localStorage, [Last("getProjects") EXCEPT !.ret = getProjects(localStorage)])

ClearProjects ==
    StoreStep(clearProjects(localStorage),
              [Last("clearProjects") EXCEPT !.before = getProjects(localStorage)])

StoreIssues ==
    \E p \in ProjectPaths : \E c \in StoreArgs :
        StoreStep(storeIssues(localStorage, p, c),
                  [Last("storeIssues") EXCEPT !.path = p, !.coll = c,
                                              !.before = getIssues(localStorage, p)])

GetIssues ==
    \E p \in ProjectPaths :
        StoreStep(localStorage,
                  [Last("getIssues") EXCEPT !.path = p, !.ret = getIssues(localStorage, p)])

ClearIssues ==
    \E p \in ProjectPaths :
        StoreStep(clearIssues(localStorage, p),
                  [Last("clearIssues") EXCEPT !.path = p,
                                              !.before = getIssues(localStorage, p)])

StoreTimeLogs ==
    \E k \in StorePeriods : \E c \in StoreArgs :
        StoreStep(storeTimeLogs(localStorage, k, c),
                  [Last("storeTimeLogs") EXCEPT !.period = k, !.coll = c,
                                                !.before = getTimeLogs(localStorage, k)])

GetTimeLogs ==
    \E k \in StorePeriods :
        StoreStep(localStorage,
                  [Last("getTimeLogs") EXCEPT !.period = k,
                                              !.ret = getTimeLogs(localStorage, k)])

ClearTimeLogs ==
    \E k \in StorePeriods :
        StoreStep(clearTimeLogs(localStorage, k),
                  [Last("clearTimeLogs") EXCEPT !.period = k,
                                                !.before = getTimeLogs(localStorage, k)])

ClearAll == StoreStep(clearAll(localStorage), Last("clearAll"))

\* a text that the store did not write appears under one of its keys
WriteRaw ==
    \E k \in StoreKeys : \E raw \in RawTexts :
        StoreStep(setItem(localStorage, k, raw), Last("setItem"))

NextStore ==
    \/ StoreProjects
    \/ GetProjects
    \/ ClearProjects
    \/ StoreIssues
    \/ GetIssues
    \/ ClearIssues
    \/ StoreTimeLogs
    \/ GetTimeLogs
    \/ ClearTimeLogs
    \/ ClearAll
    \/ WriteRaw

SpecStore == InitStore /\ [][NextStore]_vars

-----------------------------------------------------------------------------
(* The grouping of time entries on its own: groupTimeLogsByWeek and the day *)
(* grouping are applied to the list of entries loaded, which is any list,  *)
(* for any month shown and any current date.                               *)

\* entries in one list
MaxEntries == 3

\* calls of the grouping in one session
MaxGroupCalls == 1

\* 2024-03-04 is a Monday
Mar4 == FirstDay(3) + 3

\* entries of alice: two on Monday 2024-03-04 (09:00Z, 14:00Z), one late on
\* Sunday 2024-03-03 (23:00Z), one on Sunday 2024-03-10 (12:00Z), one at
\* Monday 2024-02-26T00:00Z and one at Monday 2024-04-01T00:00Z
GroupEntries ==
    { TimeLog(1, 24 * Mar4 + 9, "alice", 3600, "g/a"),
      TimeLog(2, 24 * Mar4 + 14, "alice", 1800, "g/a"),
      TimeLog(3, 24 * (Mar4 - 1) + 23, "alice", 45, "g/a"),
      TimeLog(4, 24 * (Mar4 + 6) + 12, "alice", 7200, "g/b"),
      TimeLog(5, 24 * (Mar4 - 7), "alice", 600, "g/b"),
      TimeLog(6, 24 * FirstDay(4), "alice", 5, "g/b") }

\* lists of distinct entries, in any order
EntryLists ==
    {l \in UNION {[1..n -> GroupEntries] : n \in 0..MaxEntries} :
        \A i, j \in 1..Len(l) : i # j => l[i] # l[j]}

\* the months shown: February, March and April 2024
GroupMonths == {2, 3, 4}

\* the current date: 2024-02-28, 2024-03-01, 2024-03-05 and 2024-04-10
GroupTodays == {FirstDay(3) - 2, FirstDay(3), FirstDay(3) + 4, FirstDay(4) + 9}

\* the entries loaded and the month shown are any list and any month
InitGroup ==
    /\ localStorage = EmptyStorage
    /\ sessionStorage = ""
    /\ authView = "login"
    /\ errorMessage = ""
    /\ tz \in TimeZones
    /\ today \in GroupTodays
    /\ currentPeriod \in GroupMonths
    /\ issuesPagination = NoPagination
    /\ projectsView = NoProjectsView
    /\ issuesView = NoIssuesView
    /\ \E logs \in EntryLists : timeLogsView = [NoTimeLogsView EXCEPT !.data = logs]
    /\ modal = ClosedModal
    /\ baseUrl = defaultBase(localStorage)
    /\ calls = EmptyBag
    /\ serverLogs = {}
    /\ nextId = 0
    /\ clicks = MaxGroupCalls
    /\ last = Last("init")

\* the entries loaded are grouped for the month shown, as loadTimeLogs does
GroupTimeLogs ==
    /\ clicks > 0
    /\ clicks' = clicks - 1
    /\ timeLogsView' =
           [status |-> "list", data |-> timeLogsView.data,
            calendarMonth |-> currentPeriod,
            list |-> weekContainers(
                         groupTimeLogsByWeek(timeLogsView.data, currentPeriod, today, tz)),
            entries |-> trackMonthEntries(timeLogsView.data, currentPeriod, today, tz)]
    /\ last' = Last("groupTimeLogsByWeek")
    /\ UNCHANGED <<localStorage, sessionStorage, authView, errorMessage,
                   currentPeriod, issuesPagination, projectsView, issuesView,
                   modal, baseUrl, calls, serverLogs, nextId, tz, today>>

NextGroup == GroupTimeLogs

SpecGroup == InitGroup /\ [][NextGroup]_vars

-----------------------------------------------------------------------------
(* The Remote API Client on its own: its operations are called with any    *)
(* content of the credential record.                                       *)

\* calls of the client in one session
MaxApiCalls == 2

\* texts under the key of the credential record: the empty string, a
\* truncated text, the text "null", a record without a token, a record with
\* an empty token
BadAuthTexts ==
    { <<>>,
      <<LB, ObjTok([username |-> "alice"])>>,
      <<NullTok>>,
      <<ObjTok([username |-> "alice", repository |-> "https://gitlab.example"])>>,
      <<ObjTok([username |-> "alice", token |-> "",
                repository |-> "https://gitlab.example"])>> }

\* localStorage with no record, with each of the texts above, and with the
\* record that a login of alice writes
CredentialStorages ==
    {EmptyStorage} \cup {setItem(EmptyStorage, AUTH_STORAGE_KEY, text) : text \in BadAuthTexts}
        \cup {saveCredentials(EmptyStorage, "alice", TokenOf("alice"),
                              "https://gitlab.example", Now(FirstDay(3) + 4, 0))}

\* the ids that the delete modal passes to deleteTimeLog: handleDeleteTimelog
\* returns before the call when no entry is selected
TimelogIds == {1, 2}

InitClient == InitWith(CredentialStorages, {0}, {FirstDay(3) + 4}, MaxApiCalls, InitialLogs)

\* one call of an operation of the client: the request it sends, if any, is
\* in flight afterwards
ClientStep(op, request, started) ==
    /\ clicks > 0
    /\ clicks' = clicks - 1
    /\ BagCardinality(calls) < MaxCalls
    /\ calls' = IF started.sent
                 THEN calls (+) SetToBag({Call(op, request, getToken(localStorage))})
                 ELSE calls
    /\ last' = [Last(op) EXCEPT !.ok = started.error = "", !.text = started.error,
                                 !.reqs = IF started.sent THEN 1 ELSE 0]
    /\ UNCHANGED <<localStorage, sessionStorage, authView, errorMessage, currentPeriod,
                   issuesPagination, projectsView, issuesView, timeLogsView, modal, baseUrl,
                   serverLogs, nextId, tz, today>>

ListProjects == ClientStep("listProjects", "listProjects", listProjects(localStorage))

GetProject == ClientStep("getProject", "getProject", getProject(localStorage))

ListIssues == ClientStep("listIssues", "listIssues", listIssues(localStorage))

GetIssue == ClientStep("getIssue", "getIssue", getIssue(localStorage))

AddSpentTime == ClientStep("addSpentTime", "addSpentTime", addSpentTime(localStorage))

DeleteTimeLog ==
    \E id \in TimelogIds :
        ClientStep("deleteTimeLog", "timelogDelete", deleteTimeLog(localStorage, id))

GetCurrentUser ==
    ClientStep("getCurrentUser", "getCurrentUser", getCurrentUser(localStorage))

GetRecentTimeLogs ==
    \E username \in {"", "alice"} :
        ClientStep("getRecentTimeLogs",
                   IF username = "" THEN "getCurrentUser" ELSE "timelogs",
                   getRecentTimeLogs(localStorage, username))

NextClient ==
    \/ ListProjects
    \/ GetProject
    \/ ListIssues
    \/ GetIssue
    \/ AddSpentTime
    \/ DeleteTimeLog
    \/ GetCurrentUser
    \/ GetRecentTimeLogs

SpecClient == InitClient /\ [][NextClient]_vars

-----------------------------------------------------------------------------
(* formatDuration on its own *)

\* the largest number of whole hours of a duration
MaxHours == 10

\* durations in seconds: whole hours, with 0, 1, 30 or 59 minutes, with 0,
\* 45 or 59 seconds
Durations ==
    {3600 * h + 60 * m + x : h \in 0..MaxHours, m \in {0, 1, 30, 59}, x \in {0, 45, 59}}

\* calls of formatDuration in one session
MaxFormatCalls == 1

InitDuration == InitWith({EmptyStorage}, {0}, {FirstDay(3) + 4}, MaxFormatCalls, {})

\* a duration is formatted, as getRecentTimeLogs does for each entry
FormatDuration ==
    /\ clicks > 0
    /\ clicks' = clicks - 1
    /\ \E seconds \in Durations :
          last' = [Last("formatDuration") EXCEPT !.num = seconds,
                                                 !.text = formatDuration(seconds)]
    /\ UNCHANGED <<localStorage, sessionStorage, authView, errorMessage, currentPeriod,
                   issuesPagination, projectsView, issuesView, timeLogsView, modal, baseUrl,
                   calls, serverLogs, nextId, tz, today>>

NextDuration == FormatDuration

SpecDuration == InitDuration /\ [][NextDuration]_vars

-----------------------------------------------------------------------------
(* Properties of credentials and the Cache Store *)

\* the period keys of the year of the model
AllPeriods == {periodKeyOf(m) : m \in 1..12}

\* every get of the Cache Store returns null
CacheEmpty(ls) ==
    /\ getProjects(ls) = JNull
    /\ \A p \in ProjectPaths : getIssues(ls, p) = JNull
    /\ \A k \in AllPeriods : getTimeLogs(ls, k) = JNull

\* C1: when the login handler has saved new credentials (saveCredentials has
\* returned), getProjects(), getIssues(p) for every project path p and
\* getTimeLogs(k) for every period key k return null, whatever was cached.
C1_SaveCredentialsClearsCache ==
    (last.op = "loginSubmit" /\ last.ok) => CacheEmpty(localStorage)

\* credentials were saved while the project list, the issues of a project
\* and the time entries of a period were cached
C1_Witness ==
    /\ last.op = "loginSubmit"
    /\ last.ok
    /\ {keyFor("projects"), issuesKey("g/b"), timelogsKey(periodKeyOf(3))} \subseteq last.had
    /\ CacheEmpty(localStorage)

\* C2: whenever a credential record is stored, every collection in the
\* Cache Store was fetched under that record: cached projects are projects of
\* its account, cached issues belong to projects the account can see, and
\* cached time entries are entries of the account.
C2_CacheOfStoredCredential ==
    LET u == UserOfToken(getToken(localStorage))
        projects == getProjects(localStorage)
    IN getToken(localStorage) # "" =>
          /\ IsArray(projects) =>
                \A i \in 1..Len(projects.a) : projects.a[i].member = u
          /\ \A p \in ProjectPaths :
                (IsArray(getIssues(localStorage, p))
                    /\ getIssues(localStorage, p) # JArr(<<>>)) => CanSee(u, p)
          /\ \A k \in AllPeriods :
                IsArray(getTimeLogs(localStorage, k)) =>
                    \A i \in 1..Len(getTimeLogs(localStorage, k).a) :
                        getTimeLogs(localStorage, k).a[i].user = u

\* C3: right after the logout handler has cleared the credential record,
\* getProjects(), getIssues(p) for every p and getTimeLogs(k) for every k
\* return null.
C3_LogoutClearsCache ==
    last.op = "logout" => CacheEmpty(localStorage)

-----------------------------------------------------------------------------
(* Properties of adding and deleting time entries *)

\* the period ("YYYY-MM") of a date string
PeriodOfDate(date) == SubSeq(date, 1, 7)

\* C4: when handleDeleteTimelog has deleted an entry whose spent date lies in
\* period P, the cached collection of P is removed and the cached collection
\* of every other period is as it was before the handler ran on.
C4_DeleteClearsItsPeriod ==
    [][(last'.op = "handleDeleteTimelog.resume" /\ last'.ok) =>
          /\ getTimeLogs(localStorage', PeriodOfDate(last'.period)) = JNull
          /\ \A k \in AllPeriods \ {PeriodOfDate(last'.period)} :
                getTimeLogs(localStorage', k) = getTimeLogs(localStorage, k)]_vars

\* C5: when handleNewLogSubmit has added an entry, the cached collection of
\* the period of the entry's date (today, also when the date field is empty)
\* is cleared when the handler has dispatched 'timeLogAdded'.
C5_AddClearsItsPeriod ==
    [][(last'.op = "handleNewLogSubmit.resume" /\ last'.ok) =>
          getTimeLogs(localStorage', periodKeyOf(MonthOfDay(today))) = JNull]_vars

\* the handlers that dispatch 'timeLogDeleted' and 'timeLogAdded', run on
\* from a successful response
SignalDispatched(l) ==
    l.op \in {"handleDeleteTimelog.resume", "handleNewLogSubmit.resume"} /\ l.ok

\* the period of the entry that the handler reported by l added or deleted
AffectedPeriod(l) ==
    IF l.period = "" THEN periodKeyOf(MonthOfDay(today)) ELSE PeriodOfDate(l.period)

\* this step starts a forced loadTimeLogs of period k: a new call that
\* bypasses the cache (without a token the call fails at once)
ForcedLoadStarted(k) ==
    IF getToken(localStorage') = ""
    THEN timeLogsView'.status = "error"
    ELSE \E c \in BagToSet(calls') :
            /\ c.fn = "loadTimeLogs"
            /\ c.pc = "getCurrentUser"
            /\ c.force
            /\ c.periodKey = k
            /\ CopiesIn(c, calls') = CopiesIn(c, calls) + 1

\* C6: each 'timeLogAdded' and 'timeLogDeleted' signal starts a forced
\* loadTimeLogs of the period of the added or deleted entry, whatever period
\* is displayed.
C6_SignalReloadsAffectedPeriod ==
    [][SignalDispatched(last') => ForcedLoadStarted(AffectedPeriod(last'))]_vars

\* C6, amended: each 'timeLogAdded' and 'timeLogDeleted' signal starts a
\* forced loadTimeLogs of the period that is displayed (currentPeriod), which
\* stays the displayed period.
C6_SignalReloadsShownPeriod ==
    [][SignalDispatched(last') =>
          /\ currentPeriod' = currentPeriod
          /\ ForcedLoadStarted(periodKeyOf(currentPeriod))]_vars

\* an entry of one month was deleted while another month was displayed, and
\* the forced load of the displayed month is under way
C6_Witness ==
    /\ last.op = "handleDeleteTimelog.resume"
    /\ last.ok
    /\ AffectedPeriod(last) # periodKeyOf(currentPeriod)
    /\ \E c \in BagToSet(calls) :
          /\ c.fn = "loadTimeLogs"
          /\ c.pc = "getCurrentUser"
          /\ c.force
          /\ c.periodKey = periodKeyOf(currentPeriod)

-----------------------------------------------------------------------------
(* Properties of the loads *)

\* a load that is started without the force flag: the project list, the
\* time entries of a month, the issues of a project opened from its card
NonForcedStart(l) ==
    l.op \in {"loadProjects", "loadTimeLogs", "showProjectIssues"} /\ ~ l.force

\* a non-forced load that has run on from the successful response to its fetch
NonForcedFetched(l) ==
    /\ l.op \in {"loadProjects.resume", "loadTimeLogs.resume", "loadIssues.resume"}
    /\ l.ok
    /\ ~ l.force
    /\ l.final

\* what the Cache Store holds under the key that the load reported by l targets
Held(l, ls) ==
    CASE l.op \in {"loadProjects", "loadProjects.resume"} -> getProjects(ls)
      [] l.op \in {"loadTimeLogs", "loadTimeLogs.resume"} -> getTimeLogs(ls, l.period)
      [] OTHER -> getIssues(ls, l.path)

\* C7: a non-forced load of the project list, of the issues of a project
\* (opened from its card) or of the time entries of a month issues no request
\* when the Cache Store holds a collection under its key; otherwise it makes
\* one fetch, and the result is in the Cache Store under that key when the
\* load has rendered it.
C7_CacheFirst ==
    [][/\ (NonForcedStart(last') /\ IsArray(Held(last', localStorage)))
             => calls' = calls
       /\ (NonForcedStart(last') /\ ~ IsArray(Held(last', localStorage))
             /\ getToken(localStorage) # "")
             => BagCardinality(calls') = BagCardinality(calls) + 1
       /\ NonForcedFetched(last') => IsArray(Held(last', localStorage'))]_vars

-----------------------------------------------------------------------------
(* Properties of the Cache Store *)

GetOps == {"getProjects", "getIssues", "getTimeLogs"}

\* the key a reported call of the store works on
KeyOfCall(l) ==
    CASE l.op \in {"storeProjects", "getProjects", "clearProjects"} -> keyFor("projects")
      [] l.op \in {"storeIssues", "getIssues", "clearIssues"} -> issuesKey(l.path)
      [] l.op \in {"storeTimeLogs", "getTimeLogs", "clearTimeLogs"} -> timelogsKey(l.period)
      [] OTHER -> ""

\* nothing is stored under key k, or what is stored is not JSON text
Unparseable(ls, k) == k \notin DOMAIN ls \/ JSONparse(getItem(ls, k)) = Throw

\* C8: getProjects, getIssues and getTimeLogs never throw, and they return
\* null when nothing is stored under the key or when the stored text does
\* not parse (as on a miss); the call leaves every key of localStorage as it was.
C8_GetNullOnMissOrMalformed ==
    [][last'.op \in GetOps =>
          /\ last'.ret # Throw
          /\ (Unparseable(localStorage, KeyOfCall(last')) => last'.ret = JNull)
          /\ localStorage' = localStorage]_vars

\* a get of the issues of a project whose key holds text that does not parse
C8_Witness ==
    /\ last.op = "getIssues"
    /\ issuesKey(last.path) \in DOMAIN localStorage
    /\ JSONparse(getItem(localStorage, issuesKey(last.path))) = Throw
    /\ last.ret = JNull

GetOf(op) ==
    CASE op = "storeProjects" -> "getProjects"
      [] op = "storeIssues" -> "getIssues"
      [] op = "storeTimeLogs" -> "getTimeLogs"
      [] OTHER -> ""

C10_IssuesIsolated ==
    [][last'.op \in {"storeIssues", "clearIssues"} =>
          /\ \A b \in ProjectPaths \ {last'.path} :
                getIssues(localStorage', b) = getIssues(localStorage, b)
          /\ getProjects(localStorage') = getProjects(localStorage)
          /\ \A k \in StorePeriods :
                getTimeLogs(localStorage', k) = getTimeLogs(localStorage, k)]_vars

\* the cached issues of a project are cleared while the issues of another
\* project, the project list and a period are cached
C10_Witness ==
    /\ last.op = "clearIssues"
    /\ IsArray(last.before)
    /\ getIssues(localStorage, last.path) = JNull
    /\ \E b \in ProjectPaths \ {last.path} : IsArray(getIssues(localStorage, b))
    /\ IsArray(getProjects(localStorage))
    /\ \E k \in StorePeriods : IsArray(getTimeLogs(localStorage, k))

-----------------------------------------------------------------------------
(* Properties of the time entries of a month *)

\* C11: every entry cached under a period key "YYYY-MM" has its spentAt
\* inside that month (of local time, as the window of the request is), also
\* when several loadTimeLogs calls of different months are in flight and
\* their responses arrive in any order: a response is stored under the
\* period it was requested for, never under the period selected later.
C11_CachedEntriesInTheirMonth ==
    \A k \in AllPeriods :
        IsArray(getTimeLogs(localStorage, k)) =>
            \A i \in 1..Len(getTimeLogs(localStorage, k).a) :
                PeriodKeyOfInstant(getTimeLogs(localStorage, k).a[i].spentAt, tz) = k

\* the response for a month has arrived and was stored after the user had
\* moved on to another month, whose load is still in flight
C11_Witness ==
    /\ last.op = "loadTimeLogs.resume"
    /\ last.ok
    /\ last.final
    /\ last.period # periodKeyOf(currentPeriod)
    /\ IsArray(getTimeLogs(localStorage, last.period))
    /\ getTimeLogs(localStorage, last.period) # JArr(<<>>)
    /\ \E c \in BagToSet(calls) :
          c.fn = "loadTimeLogs" /\ c.periodKey = periodKeyOf(currentPeriod)

-----------------------------------------------------------------------------
(* Properties of the grouping of time entries *)

\* the state shows the result of groupTimeLogsByWeek for the entries of
\* timeLogsView.data and the month currentPeriod
Grouped == last.op = "groupTimeLogsByWeek"

WeekHours == 7 * 24

\* C12: for every month shown and every current date, the week buckets that
\* groupTimeLogsByWeek returns have a weekStart that is (the local midnight
\* of) a Monday, they are ordered strictly descending by weekStart, and no
\* two buckets have the same week key.
C12_WeekBucketsMondayDescending ==
    LET list == timeLogsView.list
    IN Grouped =>
          /\ \A i \in 1..Len(list) :
                /\ (list[i].weekStart + tz) % 24 = 0
                \* day 0 of the calendar, 2024-01-01, is a Monday
                /\ LocalDay(list[i].weekStart, tz) % 7 = 0
          /\ \A i, j \in 1..Len(list) :
                i < j => /\ list[i].weekStart > list[j].weekStart
                         /\ list[i].weekKey # list[j].weekKey

\* the five weeks of March 2024 are returned in a time zone east of UTC,
\* where the week keys are the dates of the Sundays before
C12_Witness ==
    /\ Grouped
    /\ tz = 1
    /\ currentPeriod = 3
    /\ Len(timeLogsView.list) = 5
    /\ timeLogsView.list[5].weekKey = "2024-02-25"

\* entry e lies in the week that starts at the instant weekStart
InWeekOf(e, weekStart) == weekStart <= e.spentAt /\ e.spentAt < weekStart + WeekHours

\* the places of entry e in the result: week bucket, day bucket, position
Places(e) ==
    LET list == timeLogsView.list
    IN {pl \in (1..Len(list)) \X (1..MaxEntries) \X (1..MaxEntries) :
          /\ pl[2] <= Len(list[pl[1]].days)
          /\ pl[3] <= Len(list[pl[1]].days[pl[2]].logs)
          /\ list[pl[1]].days[pl[2]].logs[pl[3]] = e}

\* C13: every entry E whose spentAt lies inside one of the weeks generated
\* for the month is in exactly one day bucket of exactly one week bucket of
\* the result, and that week bucket is the one of the Monday that starts the
\* week of E's spentAt (a Sunday entry belongs to the Monday before).
C13_EntryInItsWeekOnce ==
    LET list == timeLogsView.list
        data == timeLogsView.data
    IN Grouped =>
          \A n \in 1..Len(data) :
              (\E i \in 1..Len(list) : InWeekOf(data[n], list[i].weekStart)) =>
                  /\ Cardinality(Places(data[n])) = 1
                  /\ \A pl \in Places(data[n]) :
                        InWeekOf(data[n], list[pl[1]].weekStart)
                  /\ \A i \in 1..Len(list) :
                        Cardinality({k \in 1..Len(list[i].logs) : list[i].logs[k] = data[n]})
                            = IF InWeekOf(data[n], list[i].weekStart) THEN 1 ELSE 0

\* an entry of a Sunday (local time) is in the bucket of the Monday six days
\* before
C13_Witness ==
    /\ Grouped
    /\ \E n \in 1..Len(timeLogsView.data) :
          /\ LocalDay(timeLogsView.data[n].spentAt, tz) % 7 = 6
          /\ \E pl \in Places(timeLogsView.data[n]) :
                LocalDay(timeLogsView.list[pl[1]].weekStart, tz)
                    = LocalDay(timeLogsView.data[n].spentAt, tz) - 6

\* the week key of entry e is the key of one of the buckets
HasBucket(e) ==
    \E i \in 1..Len(timeLogsView.list) :
        timeLogsView.list[i].weekKey = getWeekKey(e.spentAt, tz)

\* C14: an entry E whose week key matches none of the weeks seeded for the
\* month raises no error, is in no bucket of the result, adds nothing to any
\* totalSeconds (the result is the result for the list without E) and is
\* not counted in the number of entries reported.
C14_UnmatchedEntryDropped ==
    LET list == timeLogsView.list
        data == timeLogsView.data
        kept == SelectSeq(data, HasBucket)
    IN Grouped =>
          /\ \A n \in 1..Len(data) :
                ~ HasBucket(data[n]) =>
                    /\ Places(data[n]) = {}
                    /\ \A i \in 1..Len(list) : \A k \in 1..Len(list[i].logs) :
                          list[i].logs[k] # data[n]
          /\ list = weekContainers(groupTimeLogsByWeek(kept, currentPeriod, today, tz))
          /\ timeLogsView.entries = Len(kept)

\* of three entries, one has a bucket and two have none
C14_Witness ==
    /\ Grouped
    /\ Len(timeLogsView.data) = 3
    /\ timeLogsView.entries = 1
    /\ \E i \in 1..Len(timeLogsView.list) : Len(timeLogsView.list[i].logs) = 1

RECURSIVE TimeSpentUpTo(_, _)
\* the sum of timeSpent over the first n entries of logs
TimeSpentUpTo(logs, n) ==
    IF n = 0 THEN 0 ELSE TimeSpentUpTo(logs, n - 1) + logs[n].timeSpent

RECURSIVE DayTotalsUpTo(_, _)
\* the sum of totalSeconds over the first n day buckets
DayTotalsUpTo(days, n) ==
    IF n = 0 THEN 0 ELSE DayTotalsUpTo(days, n - 1) + days[n].totalSeconds

\* the totalSeconds of every week bucket and of every day bucket is the sum
\* of timeSpent over its entries, and the day totals of a week add up to the
\* total of the week
TotalsExact ==
    LET list == timeLogsView.list
    IN \A i \in 1..Len(list) :
          /\ list[i].totalSeconds = TimeSpentUpTo(list[i].logs, Len(list[i].logs))
          /\ \A j \in 1..Len(list[i].days) :
                list[i].days[j].totalSeconds
                    = TimeSpentUpTo(list[i].days[j].logs, Len(list[i].days[j].logs))
          /\ DayTotalsUpTo(list[i].days, Len(list[i].days)) = list[i].totalSeconds

\* the entries are the two of 2024-03-04, of 3600 s and 1800 s, in either
\* order, and the month shown is March 2024
TwoOnMar4 ==
    /\ Grouped
    /\ currentPeriod = 3
    /\ Len(timeLogsView.data) = 2
    /\ {timeLogsView.data[1], timeLogsView.data[2]}
          = {e \in GroupEntries : e.id \in {1, 2}}

\* bucket w holds one day bucket, for 2024-03-04, with 5400 s
OneDayOf5400(w) ==
    /\ Len(w.days) = 1
    /\ w.days[1].dayKey = "2024-03-04"
    /\ w.days[1].totalSeconds = 5400
    /\ w.totalSeconds = 5400

\* C15: every week total and every day total is the exact sum of timeSpent
\* over its entries (the day totals of a week add up to the week total); the
\* entries of 3600 s and 1800 s on 2024-03-04, with March 2024 shown, give
\* one week bucket, which holds one day bucket for 2024-03-04 with
\* totalSeconds = 5400.
C15_TotalsAndOneWeekBucket ==
    Grouped =>
        /\ TotalsExact
        /\ TwoOnMar4 =>
              /\ Len(timeLogsView.list) = 1
              /\ OneDayOf5400(timeLogsView.list[1])

\* C15, amended: the totals are exact sums; the two entries give, when the
\* current date is not before 2024-03-04, a bucket for every week of March
\* up to the current date, of which exactly one holds entries: it holds one
\* day bucket for 2024-03-04 with totalSeconds = 5400, and the other week
\* buckets are empty with totalSeconds = 0.
C15_TotalsAndOneWeekWithEntries ==
    LET list == timeLogsView.list
    IN Grouped =>
          /\ TotalsExact
          /\ (TwoOnMar4 /\ today >= Mar4) =>
                /\ Cardinality({i \in 1..Len(list) : list[i].logs # <<>>}) = 1
                /\ \A i \in 1..Len(list) :
                      IF list[i].logs # <<>>
                      THEN OneDayOf5400(list[i])
                      ELSE list[i].days = <<>> /\ list[i].totalSeconds = 0

\* the two entries of 2024-03-04 are grouped on 2024-03-05: the weeks of
\* Monday 2024-03-04 and of Monday 2024-02-26 are returned
C15_Witness ==
    /\ TwoOnMar4
    /\ today = Mar4 + 1
    /\ Len(timeLogsView.list) = 2
    /\ OneDayOf5400(timeLogsView.list[1])
    /\ timeLogsView.list[2].logs = <<>>

-----------------------------------------------------------------------------
(* Properties of formatDuration *)

\* C16: for every integer s >= 0, formatDuration(s) shows floor(s / 3600)
\* hours and floor((s mod 3600) / 60) minutes, leaves out a component that
\* is zero, and is "0m" whenever s < 60: 5400 gives "1h 30m", 0 gives "0m",
\* 45 gives "0m".
C16_FormatDuration ==
    LET s == last.num
        h == s \div 3600
        m == (s % 3600) \div 60
    IN last.op = "formatDuration" =>
          /\ last.text = CASE h > 0 /\ m > 0 -> NumStr(h) \o "h " \o NumStr(m) \o "m"
                            [] h > 0 /\ m = 0 -> NumStr(h) \o "h"
                            [] h = 0 /\ m > 0 -> NumStr(m) \o "m"
                            [] OTHER -> "0m"
          /\ s < 60 => last.text = "0m"
          /\ s = 5400 => last.text = "1h 30m"
          /\ s = 0 => last.text = "0m"
          /\ s = 45 => last.text = "0m"
          /\ s = 3600 => last.text = "1h"
          /\ s = 3599 => last.text = "59m"
          /\ s = 36059 => last.text = "10h"

\* 5400 seconds were formatted as "1h 30m"
C16_Witness == last.op = "formatDuration" /\ last.num = 5400 /\ last.text = "1h 30m"

-----------------------------------------------------------------------------
(* Properties of the credential record *)

\* texts that may be found under the key of the credential record: the
\* texts without a usable token, a record with an empty username, a record
\* without a username, and the record that a login of alice writes
AuthTexts ==
    BadAuthTexts
        \cup { <<ObjTok([username |-> "", token |-> TokenOf("alice"),
                         repository |-> "https://gitlab.example"])>>,
               <<ObjTok([token |-> TokenOf("alice")])>>,
               <<ObjTok([username |-> "alice", token |-> TokenOf("alice")])>>,
               <<ObjTok([username |-> "alice", token |-> TokenOf("alice"),
                         repository |-> "https://gitlab.example", timestamp |-> 0])>> }

\* the text is a record whose username and token are both non-empty
BothNonEmpty(text) ==
    /\ text # <<>>
    /\ JSONparse(JStr(text)).t = "object"
    /\ {"username", "token"} \subseteq DOMAIN JSONparse(JStr(text)).o
    /\ JSONparse(JStr(text)).o.username # ""
    /\ JSONparse(JStr(text)).o.token # ""

\* getStoredAuth returns the record of the text when its username and token
\* are both non-empty, and null otherwise
StoredAuthOf(ls, text) ==
    IF BothNonEmpty(text)
    THEN /\ getStoredAuth(ls).t = "object"
         /\ getStoredAuth(ls).o.username = JSONparse(JStr(text)).o.username
         /\ getStoredAuth(ls).o.token = JSONparse(JStr(text)).o.token
    ELSE getStoredAuth(ls) = JNull

\* C19: in every state reached by login submissions and logouts, a
\* credential record that exists in storage has a non-empty username and a
\* non-empty token; getStoredAuth returns a record only when both are
\* non-empty and returns null otherwise (for the stored text, and for any
\* text under the key).
C19_CredentialRecordComplete ==
    /\ AUTH_STORAGE_KEY \in DOMAIN localStorage =>
          /\ BothNonEmpty(localStorage[AUTH_STORAGE_KEY])
          /\ StoredAuthOf(localStorage, localStorage[AUTH_STORAGE_KEY])
    /\ AUTH_STORAGE_KEY \notin DOMAIN localStorage => getStoredAuth(localStorage) = JNull
    /\ \A text \in AuthTexts :
          StoredAuthOf(setItem(localStorage, AUTH_STORAGE_KEY, text), text)

\* a login has stored the record of alice
C19_Witness ==
    /\ last.op = "loginSubmit"
    /\ last.ok
    /\ getStoredAuth(localStorage).t = "object"
    /\ getStoredAuth(localStorage).o.username = "alice"
    /\ getStoredAuth(localStorage).o.token = TokenOf("alice")
    /\ errorMessage = ""

-----------------------------------------------------------------------------
(* Properties of failed loads *)

LoadResumes == {"loadProjects.resume", "loadIssues.resume", "loadTimeLogs.resume"}

\* this step is a load that runs on from the failure of its remote call
FailedLoad == last'.op \in LoadResumes /\ ~ last'.ok

\* after this step the view of the load shows its error state
ErrorShown ==
    CASE last'.op = "loadProjects.resume" -> projectsView'.status = "error"
      [] last'.op = "loadIssues.resume" -> issuesView'.status = "error"
      [] OTHER -> timeLogsView'.status = "error"

\* this step performs no store operation and sends no further request: the
\* failed call is gone and nothing took its place
NoStoreNoRetry ==
    /\ localStorage' = localStorage
    /\ BagCardinality(calls') = BagCardinality(calls) - 1

\* this step takes a view out of its error state
ErrorLeft ==
    \/ projectsView.status = "error" /\ projectsView'.status # "error"
    \/ issuesView.status = "error" /\ issuesView'.status # "error"
    \/ timeLogsView.status = "error" /\ timeLogsView'.status # "error"

-----------------------------------------------------------------------------
(* Properties of the Remote API Client *)

ClientOps ==
    {"listProjects", "getProject", "listIssues", "getIssue", "addSpentTime",
     "deleteTimeLog", "getCurrentUser", "getRecentTimeLogs"}

\* no credential record is stored, or the stored text does not parse to a
\* record, or the record has no token or an empty one
NoCredential(ls) ==
    \/ AUTH_STORAGE_KEY \notin DOMAIN ls
    \/ ls[AUTH_STORAGE_KEY] = <<>>
    \/ JSONparse(JStr(ls[AUTH_STORAGE_KEY])).t # "object"
    \/ "token" \notin DOMAIN JSONparse(JStr(ls[AUTH_STORAGE_KEY])).o
    \/ JSONparse(JStr(ls[AUTH_STORAGE_KEY])).o.token = ""

\* C18: when no credential record is stored (or the stored record does not
\* parse or has no token), every operation of the Remote API Client
\* (listProjects, getProject, listIssues, getIssue, addSpentTime,
\* deleteTimeLog, getCurrentUser, getRecentTimeLogs) fails with the
\* authentication-missing error and sends no request.
C18_NoTokenNoRequest ==
    [][(last'.op \in ClientOps /\ NoCredential(localStorage)) =>
          /\ ~ last'.ok
          /\ last'.text = AuthMissing
          /\ last'.reqs = 0
          /\ calls' = calls
          /\ localStorage' = localStorage]_vars

\* addSpentTime and then deleteTimeLog were called while the stored text is
\* a truncated record: both have failed and no request is in flight
C18_Witness ==
    /\ last.op = "deleteTimeLog"
    /\ AUTH_STORAGE_KEY \in DOMAIN localStorage
    /\ JSONparse(getItem(localStorage, AUTH_STORAGE_KEY)) = Throw
    /\ last.text = AuthMissing
    /\ calls = EmptyBag
    /\ clicks = 0

-----------------------------------------------------------------------------
(* Properties of the favorites *)

\* C20: after logout both favorite sets are empty: getFavoriteProjects()
\* and getFavoriteIssues() return empty lists, whatever had been toggled
\* before the logout.
C20_LogoutClearsFavorites ==
    last.op = "logout" =>
        /\ getFavoriteProjects(localStorage) = <<>>
        /\ getFavoriteIssues(localStorage) = <<>>

-----------------------------------------------------------------------------
(* Properties of the delete button of the time-log modal *)

\* the account the stored token authenticates
CurrentUser == UserOfToken(getToken(localStorage))

\* the owner of the entry with the given id, "" when the service holds none
OwnerOf(id) ==
    IF \E e \in serverLogs : e.id = id
    THEN (CHOOSE e \in serverLogs : e.id = id).user
    ELSE ""

\* the delete requests in flight
DeleteRequests == {c \in BagToSet(calls) : c.pc = "timelogDelete"}

\* the ownership lookups of openDeleteTimelogModal that are on their way and
\* return an identity that is not the owner of the entry
ForeignLookups ==
    {d \in BagToSet(calls) :
        /\ d.fn = "openDeleteTimelogModal"
        /\ d.pc = "getCurrentUser"
        /\ d.owner # ""
        /\ UserOfToken(d.token) \notin {"", d.owner}}

\* C21: when openDeleteTimelogModal is called for an entry that carries an
\* owner and the current-user lookup succeeds with another identity (no
\* lookup of these sessions fails), the delete button is disabled before the
\* user can click it: no delete request is issued for an entry while the
\* lookup that finds it to be another user's entry is on its way.
C21_DisabledBeforeDeleteCanBeTriggered ==
    \A c \in DeleteRequests : \A d \in ForeignLookups : d.logId # c.logId

-----------------------------------------------------------------------------
(* Properties of the favorites-first ordering *)

\* the number of occurrences of x in seq
Count(seq, x) == Cardinality({i \in 1..Len(seq) : seq[i] = x})

\* shown is loaded with the favorites moved to the front: a permutation, the
\* favorites before the others, each class in the order of loaded
FavoritesMovedFirst(loaded, shown, favoriteIds) ==
    LET isFav(n) == includes(favoriteIds, n.id)
        notFav(n) == ~ includes(favoriteIds, n.id)
    IN /\ Len(shown) = Len(loaded)
       /\ \A i \in 1..Len(loaded) : Count(shown, loaded[i]) = Count(loaded, loaded[i])
       /\ \A i, j \in 1..Len(shown) : i < j /\ isFav(shown[j]) => isFav(shown[i])
       /\ SelectSeq(shown, isFav) = SelectSeq(loaded, isFav)
       /\ SelectSeq(shown, notFav) = SelectSeq(loaded, notFav)

\* C22: for every loaded collection of projects or issues and every stored
\* favorite sets, the list rendered is a permutation of the loaded
\* collection in which every favorite comes before every item that is not a
\* favorite and the items of each class keep their relative order.
C22_FavoritesOnlyReorder ==
    /\ last.op = "loadProjectsRender" /\ Len(last.coll.a) > 0 =>
           /\ projectsView.status = "list"
           /\ FavoritesMovedFirst(last.coll.a, projectsView.nodes,
                                  getFavoriteProjects(localStorage))
    /\ last.op = "loadIssuesRender" /\ Len(last.coll.a) > 0 =>
           /\ issuesView.status = "list"
           /\ FavoritesMovedFirst(last.coll.a, issuesView.nodes,
                                  getFavoriteIssues(localStorage))
           /\ issuesPagination.allIssues = issuesView.nodes

\* issues i1, i2, i3 were loaded in this order, i2 and i3 are favorites, and
\* the list shows i2, i3, i1
C22_Witness ==
    /\ last.op = "loadIssuesRender"
    /\ last.coll.a = <<Issue("i1", 1, "g/a"), Issue("i2", 2, "g/a"), Issue("i3", 3, "g/a")>>
    /\ getFavoriteIssues(localStorage) = <<"i3", "i2">>
    /\ issuesView.nodes = <<Issue("i2", 2, "g/a"), Issue("i3", 3, "g/a"), Issue("i1", 1, "g/a")>>

\* openDeleteTimelogModal has run to its end for an entry whose owner is the
\* identity that the current-user lookup returned
OpenedOwnEntry ==
    /\ last.op = "openDeleteTimelogModal.resume"
    /\ last.final
    /\ last.ok
    /\ last.owner # ""
    /\ last.user = last.owner

\* C30: the disabled state of the delete button depends only on the entry
\* shown: whenever openDeleteTimelogModal has opened the modal for an entry
\* owned by the current user, the delete button is enabled, also when the
\* modal was opened before for an entry of another user and closed.
C30_OwnEntryCanBeDeleted == OpenedOwnEntry => ~ modal.hidden /\ ~ modal.deleteDisabled

-----------------------------------------------------------------------------
(* Properties of the new-log form *)

\* the add-time requests in flight
AddRequests == {c \in BagToSet(calls) : c.pc = "addSpentTime"}

\* the form was submitted with a project, an issue and a date that is not
\* the date of today
SubmittedWithOtherDate ==
    /\ last.op = "handleNewLogSubmit"
    /\ modal.project # ""
    /\ last.num # 0
    /\ last.period \notin {"", LocalDateString(Now(today, tz), tz)}

\* C23: submitting the new-log form with a project, an issue and a date
\* other than today sends an add-time request that carries that date (and on
\* success the period cache of the entry is cleared and 'timeLogAdded' is
\* dispatched).
C23_ExplicitDateIsSent ==
    SubmittedWithOtherDate => \E c \in AddRequests : c.date = last.period

-----------------------------------------------------------------------------
(* Properties of the base URL of the Remote API Client *)

\* the endpoint of the stored credential record
StoredEndpoint == getStoredAuth(localStorage).o.repository

\* the requests in flight that carry the stored token
RequestsOfStoredToken ==
    {c \in BagToSet(calls) : c.phase = "sent" /\ c.token = getToken(localStorage)}

\* C28: in every state where a credential record exists, the base URL the
\* Remote API Client uses equals the endpoint of the stored record: the
\* requests that carry the stored token are sent to that endpoint and to no
\* other host.
C28_RequestsGoToStoredEndpoint ==
    getStoredAuth(localStorage) # JNull =>
        /\ baseUrl = StoredEndpoint
        /\ \A c \in RequestsOfStoredToken : c.host = StoredEndpoint

-----------------------------------------------------------------------------
(* Properties of the pagination of issues *)

\* the issue requests in flight
IssueRequests == {c \in BagToSet(calls) : c.fn = "loadIssues"}

\* the response of an issue request has been applied
IssuesApplied == last.op = "loadIssues.resume" /\ last.ok

\* the pagination state holds only data of the project it names
PaginationOfNamedProject ==
    LET p == issuesPagination
    IN /\ p.endCursor # NoCursor => p.endCursor.p = p.projectFullPath
       /\ \A i \in 1..Len(p.allIssues) : p.allIssues[i].project = p.projectFullPath

\* C24: under any interleaving of loadIssues calls and responses for
\* different projects, every issue request for project P with a non-null
\* cursor uses a cursor that a response for P returned, and after a response
\* has been applied the pagination state (endCursor, hasNextPage, allIssues)
\* holds only data of the project named in issuesPagination.projectFullPath.
C24_CursorAndPagesOfOneProject ==
    /\ \A c \in IssueRequests : c.after # NoCursor => c.after.p = c.path
    /\ IssuesApplied => PaginationOfNamedProject

\* C29: after any sequence of opening a project from its card, going back,
\* reopening the same or another project and clicking 'Load more', the
\* accumulated list issuesPagination.allIssues holds each issue of the
\* project displayed at most once and starts with the first page of that
\* project.
C29_EachIssueOnceFirstPageFirst ==
    IssuesApplied /\ last.path = sessionStorage =>
        LET all == issuesPagination.allIssues
            first == ServerIssuePages(sessionStorage)[1]
        IN /\ \A i, j \in 1..Len(all) : i # j => all[i] # all[j]
           /\ Len(all) >= Len(first)
           /\ SubSeq(all, 1, Len(first)) = first

-----------------------------------------------------------------------------
(* Properties of the seeding of the week buckets *)

\* the local days on which the week buckets returned start
BucketDays ==
    {LocalDay(timeLogsView.list[i].weekStart, tz) : i \in 1..Len(timeLogsView.list)}

\* the Mondays of the calendar around the months shown
Mondays == {d \in (FirstDay(1) - 7)..(FirstDay(6) + 7) : MondayOf(d) = d}

\* the first and the last day of the month shown
FirstOfMonth == FirstDay(currentPeriod)

LastOfMonth == FirstDay(currentPeriod) + MonthDays(currentPeriod) - 1

\* the last day of the month shown or the current date, whichever is earlier
LastSeedDay == IF today < LastOfMonth THEN today ELSE LastOfMonth

\* C25: for every month M shown and every current date T, the buckets that
\* groupTimeLogsByWeek returns are exactly the Monday-aligned weeks that
\* intersect [first day of M, min(last day of M, T)], with or without
\* entries; no bucket starts later than T, and a month that lies entirely
\* after T yields no bucket.
C25_WeeksIntersectingMonthUpToNow ==
    Grouped =>
        /\ BucketDays = {w \in Mondays : \E d \in w..(w + 6) :
                                            FirstOfMonth <= d /\ d <= LastSeedDay}
        /\ \A w \in BucketDays : w <= today
        /\ today < FirstOfMonth => timeLogsView.list = <<>>

\* C25, amended: the buckets are exactly the weeks that start on a Monday
\* from the Monday of the week of the first day of M up to min(last day of
\* M, T), with or without entries; no bucket starts later than T; a month
\* that lies entirely after T yields no bucket unless T lies in the week of
\* the first day of M, and then it yields the bucket of that week.
C25_WeeksFromFirstMondayUpToNow ==
    Grouped =>
        /\ BucketDays = {w \in Mondays : MondayOf(FirstOfMonth) <= w /\ w <= LastSeedDay}
        /\ Len(timeLogsView.list) = Cardinality(BucketDays)
        /\ \A w \in BucketDays : w <= today
        /\ today < FirstOfMonth =>
               IF today < MondayOf(FirstOfMonth)
               THEN timeLogsView.list = <<>>
               ELSE BucketDays = {MondayOf(FirstOfMonth)}

\* on 2024-03-05 March is grouped: the weeks of 2024-02-26 and 2024-03-04 get
\* a bucket, one of them without entries, and the later weeks of March none
C25_Witness ==
    /\ Grouped
    /\ currentPeriod = 3
    /\ today = Mar4 + 1
    /\ BucketDays = {Mar4 - 7, Mar4}
    /\ \E i \in 1..Len(timeLogsView.list) : timeLogsView.list[i].logs = <<>>
    /\ \E i \in 1..Len(timeLogsView.list) : timeLogsView.list[i].logs # <<>>

-----------------------------------------------------------------------------
(* Properties of overlapping loads of time entries *)

\* no request is in flight
Quiet == calls = EmptyBag

\* the entries of the stored account that the remote service holds for
\* month m, in the order in which getRecentTimeLogs returns them
EntriesOfPeriod(m) ==
    SortBySpentAtDesc({e \in serverLogs :
                          /\ e.user = UserOfToken(getToken(localStorage))
                          /\ MonthStart(m, tz) <= e.spentAt
                          /\ e.spentAt < MonthStart(m + 1, tz)})

\* the track tab shows a list or the empty state
TimeLogsShown == authView = "dashboard" /\ timeLogsView.status \in {"list", "empty"}

\* C26: when several loadTimeLogs calls (from changePeriod or refresh)
\* overlap and their responses arrive in any order, then once no request is
\* in flight the search data set, the calendar and the list show the entries
\* of the period held in currentPeriod, not the entries of another period
\* and not an empty list.
C26_ViewShowsCurrentPeriod ==
    Quiet /\ TimeLogsShown =>
        /\ timeLogsView.data = EntriesOfPeriod(currentPeriod)
        /\ timeLogsView.calendarMonth = currentPeriod
        /\ timeLogsView.status = "list" <=> EntriesOfPeriod(currentPeriod) # <<>>
        /\ timeLogsView.status = "list" =>
               timeLogsView.list =
                   weekContainers(groupTimeLogsByWeek(EntriesOfPeriod(currentPeriod),
                                                      currentPeriod, today, tz))

\* the entries of month m that the remote service holds differ from those
\* it held when the session started: an entry of m was added or deleted
Mutated(m) ==
    LET inMonth(e) == MonthStart(m, tz) <= e.spentAt /\ e.spentAt < MonthStart(m + 1, tz)
    IN {e \in serverLogs : inMonth(e)} # {e \in InitialLogs : inMonth(e)}

\* C27: after an entry of period P has been added or deleted, the Cache
\* Store does not hold for P a list fetched before the mutation once every
\* request in flight has completed, also when a loadTimeLogs request for P
\* was in flight at the time of the mutation and its response arrives after
\* the response of the forced reload.
C27_NoListFromBeforeMutation ==
    Quiet =>
        \A m \in 1..5 :
            Mutated(m) /\ IsArray(getTimeLogs(localStorage, periodKeyOf(m))) =>
                getTimeLogs(localStorage, periodKeyOf(m)).a = EntriesOfPeriod(m)

====
